---- MODULE Spec2Model ----
(***************************************************************************)
(* Model of the pin fulfilment allocator of Enlineacoins:                  *)
(*   src/pin_manager.py          PinManager (local stock + vendor fallback)*)
(*   src/inefable_api_client.py  InefableAPIClient (the vendor client)     *)
(*   src/app.py                  validar_freefire_latam (purchase handler) *)
(*                                                                         *)
(* Every database statement and every vendor HTTP request is one atomic    *)
(* step of the calling process; the Python code between two such steps is  *)
(* local to the request and is folded into the step that precedes it.      *)
(***************************************************************************)
EXTENDS Integers, Sequences, FiniteSets, TLC

\* ------------------------------------------------------------------ bounds
MaxPackage == 1      \* packages 1..MaxPackage are stocked and requested
MaxStock == 2        \* rows per package in the initial inventory
MaxCantidad == 3     \* largest quantity a request asks for
MaxRequests == 2     \* requests started in one behaviour
MaxPrecio == 2       \* largest unit price of a package
MaxSaldo == 4        \* largest initial balance of the customer
MaxPieces == 2       \* pieces a response text is made of
\* purchase records: rows inserted, seconds elapsed, rows of the second user
MaxTx == 22
MaxReloj == 1
MaxOtherTx == 1
\* inventory maintenance: entries of one batch, highest row id, packages
MaxBatchLen == 2
MaxRowId == 3
MaxBatchMonto == 2
\* rows of precios_paquetes in the price administration
MaxPriceId == 3
\* the wallet: web requests made in one behaviour
MaxWalletOps == 4
\* Free Fire Global: largest quantity of a purchase
MaxGlobalCantidad == 2

Procs == {"p1", "p2"}          \* concurrent web requests
SeqProcs == {"p1"}             \* the one worker of the sequential runs

\* monto_mapping of the vendor client: the ids 1..9
MontoMappingMax == 9
monto_mapping == 1..MontoMappingMax

Packages == 1..MaxPackage
Cantidades == (0 - 1)..MaxCantidad

VARIABLES
    pines,        \* table pines_freefire: set of rows
    next_id,      \* AUTOINCREMENT of pines_freefire.id
    minted,       \* codes the vendor has minted so far
    req,          \* per process: the running request's locals and position
    delivered,    \* codes handed to callers by requests that have returned
    nreq,         \* requests started so far
    saldo,        \* usuarios.saldo of the customer
    session,      \* per process: the session cookie (is_admin, saldo)
    precios,      \* table precios_paquetes: package -> [precio, activo]
    transacciones,\* table transacciones, in insertion order
    hreq,         \* per process: the purchase handler's locals and position
    tx_id,        \* AUTOINCREMENT of transacciones.id
    reloj,        \* CURRENT_TIMESTAMP, in seconds
    vcall,        \* a call of the vendor client on one response: input and result
    admop,        \* the last maintenance operation of the admin and its result
    bstx,         \* table transacciones_bloodstriker, in insertion order
    pines_global, \* table pines_freefire_global: set of rows
    greq          \* per process: the locals and position of validar_freefire

shop == <<saldo, session, precios, transacciones, hreq>>

\* the tables and locals of the other games
otros == <<bstx, pines_global, greq>>

maint == <<tx_id, reloj, vcall, admop, otros>>

vars == <<pines, next_id, minted, req, delivered, nreq, shop, maint>>

\* ------------------------------------------------------------- inventory
Row(id, m, code) == [id |-> id, monto_id |-> m, pin_codigo |-> code, usado |-> FALSE]

LocalCode(id) == <<"L", id>>
VendorCode(k) == <<"V", k>>

\* SELECT ... WHERE monto_id = ? AND usado = FALSE
UnusedRows(m) == {row \in pines : row.monto_id = m /\ ~row.usado}

get_local_stock(m) == Cardinality(UnusedRows(m))

\* Mutant: the DELETE is never committed
remove_local_pin_uncommitted(id) == pines

\* DELETE FROM pines_freefire WHERE id = ?   (no row count is looked at)
remove_local_pin(id) == {row \in pines : row.id # id}

\* add_local_pin: insert unless a row with this (code, package) exists
add_local_pin_exists(m, code) ==
    \E row \in pines : row.pin_codigo = code /\ row.monto_id = m

add_local_pin(m, code) ==
    IF add_local_pin_exists(m, code) THEN pines
    ELSE pines \cup {Row(next_id, m, code)}

add_local_pin_next_id(m, code) ==
    IF add_local_pin_exists(m, code) THEN next_id ELSE next_id + 1

Min(a, b) == IF a < b THEN a ELSE b

\* ------------------------------------------------------ texts and patterns
\* A text is a sequence of one-character strings.
UpperChars == <<"A", "B", "C", "D", "E", "F", "G", "H", "I", "J", "K", "L", "M", "N", "O", "P", "Q", "R", "S", "T", "U", "V", "W", "X", "Y", "Z">>
LowerChars == <<"a", "b", "c", "d", "e", "f", "g", "h", "i", "j", "k", "l", "m", "n", "o", "p", "q", "r", "s", "t", "u", "v", "w", "x", "y", "z">>
DigitChars == {"0", "1", "2", "3", "4", "5", "6", "7", "8", "9"}

Range(f) == {f[i] : i \in DOMAIN f}

\* str.lower() of one character
ToLower(c) ==
    IF c \in Range(UpperChars)
    THEN LowerChars[CHOOSE i \in DOMAIN UpperChars : UpperChars[i] = c]
    ELSE IF c = "Ó" THEN "ó" ELSE c

\* str.lower()
LowerText(t) == [i \in 1..Len(t) |-> ToLower(t[i])]

\* [A-Z0-9] under re.IGNORECASE
IsAlnum(c) == c \in Range(UpperChars) \cup Range(LowerChars) \cup DigitChars

\* whitespace, as \s and str.strip() see it
IsSpace(c) == c \in {" ", "\n", "\t", "\r"}

\* [:\s]
IsSep(c) == c = ":" \/ IsSpace(c)

\* str.strip()
RECURSIVE StripLeft(_)
StripLeft(t) ==
    IF t # <<>> /\ IsSpace(t[1]) THEN StripLeft(Tail(t)) ELSE t

RECURSIVE StripRight(_)
StripRight(t) ==
    IF t # <<>> /\ IsSpace(t[Len(t)])
    THEN StripRight(SubSeq(t, 1, Len(t) - 1)) ELSE t

Strip(t) == StripRight(StripLeft(t))

\* `w in t` of two strings
Contains(t, w) ==
    \E i \in 1..(Len(t) - Len(w) + 1) : SubSeq(t, i, i + Len(w) - 1) = w

\* length of the run of [A-Z0-9] characters that starts at position i
RECURSIVE AlnumRun(_, _)
AlnumRun(t, i) ==
    IF i > Len(t) \/ ~IsAlnum(t[i]) THEN 0 ELSE 1 + AlnumRun(t, i + 1)

\* the position after the [:\s]* that starts at position i
RECURSIVE SkipSeps(_, _)
SkipSeps(t, i) ==
    IF i <= Len(t) /\ IsSep(t[i]) THEN SkipSeps(t, i + 1) ELSE i

\* the literal w matches at position i, ignoring case
WordAt(t, i, w) ==
    /\ i + Len(w) - 1 <= Len(t)
    /\ LowerText(SubSeq(t, i, i + Len(w) - 1)) = LowerText(w)

\* where the [A-Z0-9]{lo,..} of a pattern starts when the pattern is tried at
\* position i: after the literal and its separators, or at i for a bare pattern
CodeStart(t, i, pat) ==
    IF pat.bare THEN i ELSE SkipSeps(t, i + Len(pat.word))

\* the pattern matches at position i
MatchesAt(t, i, pat) ==
    /\ pat.bare \/ WordAt(t, i, pat.word)
    /\ AlnumRun(t, CodeStart(t, i, pat)) >= pat.lo

\* re.search(pattern, text, re.IGNORECASE).group(1): the leftmost match, the
\* quantifier {lo,hi} taking as many characters as it can; <<>> for no match
SearchGroup(t, pat) ==
    LET at == {i \in 1..Len(t) : MatchesAt(t, i, pat)}
    IN IF at = {} THEN <<>>
       ELSE LET i == CHOOSE x \in at : \A y \in at : x <= y
                from == CodeStart(t, i, pat)
                n == Min(AlnumRun(t, from), pat.hi)
            IN SubSeq(t, from, from + n - 1)

\* Mutant: the bare token is tried before the prefixes
ExtractPatternsBareFirst ==
    <<[word |-> <<>>, bare |-> TRUE, lo |-> 12, hi |-> 16],
      [word |-> <<"P", "I", "N">>, bare |-> FALSE, lo |-> 10, hi |-> 20],
      [word |-> <<"C", "O", "D", "I", "G", "O">>, bare |-> FALSE, lo |-> 10, hi |-> 20],
      [word |-> <<"C", "O", "D", "E">>, bare |-> FALSE, lo |-> 10, hi |-> 20],
      [word |-> <<"P", "i", "n">>, bare |-> FALSE, lo |-> 10, hi |-> 20],
      [word |-> <<"C", "ó", "d", "i", "g", "o">>, bare |-> FALSE, lo |-> 10, hi |-> 20]>>

\* patterns of _extract_pin_from_text, in order
ExtractPatterns ==
    <<[word |-> <<"P", "I", "N">>, bare |-> FALSE, lo |-> 10, hi |-> 20],
      [word |-> <<"C", "O", "D", "I", "G", "O">>, bare |-> FALSE, lo |-> 10, hi |-> 20],
      [word |-> <<"C", "O", "D", "E">>, bare |-> FALSE, lo |-> 10, hi |-> 20],
      [word |-> <<>>, bare |-> TRUE, lo |-> 12, hi |-> 16],
      [word |-> <<"P", "i", "n">>, bare |-> FALSE, lo |-> 10, hi |-> 20],
      [word |-> <<"C", "ó", "d", "i", "g", "o">>, bare |-> FALSE, lo |-> 10, hi |-> 20]>>

\* if 10 <= len(pin_code) <= 20
PinLengthOk(pin_code) == 10 <= Len(pin_code) /\ Len(pin_code) <= 20

\* _extract_pin_from_text: the first pattern, in order, whose match has a
\* reasonable length; <<>> for None
RECURSIVE ExtractFrom(_, _)
ExtractFrom(t, k) ==
    IF k > Len(ExtractPatterns) THEN <<>>
    ELSE LET pin_code == Strip(SearchGroup(t, ExtractPatterns[k]))
         IN IF pin_code # <<>> /\ PinLengthOk(pin_code) THEN pin_code
            ELSE ExtractFrom(t, k + 1)

extract_pin_from_text(t) == ExtractFrom(t, 1)

\* no_stock_keywords of check_stock_availability
no_stock_keywords ==
    {<<"s", "i", "n", " ", "s", "t", "o", "c", "k">>,
     <<"n", "o", " ", "s", "t", "o", "c", "k">>,
     <<"a", "g", "o", "t", "a", "d", "o">>,
     <<"n", "o", " ", "d", "i", "s", "p", "o", "n", "i", "b", "l", "e">>,
     <<"o", "u", "t", " ", "o", "f", " ", "s", "t", "o", "c", "k">>,
     <<"u", "n", "a", "v", "a", "i", "l", "a", "b", "l", "e">>,
     <<"i", "n", "s", "u", "f", "f", "i", "c", "i", "e", "n", "t">>,
     <<"n", "o", " ", "h", "a", "y">>,
     <<"t", "e", "m", "p", "o", "r", "a", "l", "m", "e", "n", "t", "e", " ", "n", "o", " ", "d", "i", "s", "p", "o", "n", "i", "b", "l", "e">>,
     <<"e", "r", "r", "o", "r">>,
     <<"n", "o", " ", "s", "e", " ", "p", "u", "d", "o">>,
     <<"f", "a", "l", "l", "i", "d", "o">>,
     <<"f", "a", "i", "l", "e", "d">>}

\* pin_patterns of check_stock_availability: [A-Z0-9]{10,20},
\* PIN[:\s]*[A-Z0-9]+ and CODIGO[:\s]*[A-Z0-9]+
pin_patterns ==
    <<[word |-> <<>>, bare |-> TRUE, lo |-> 10],
      [word |-> <<"P", "I", "N">>, bare |-> FALSE, lo |-> 1],
      [word |-> <<"C", "O", "D", "I", "G", "O">>, bare |-> FALSE, lo |-> 1]>>

\* has_stock of check_stock_availability for the text of a 200 response:
\* True unless a keyword occurs in the lowered text, and True again when one
\* of the pin patterns is found in it
HasKeyword(response_text) ==
    \E k \in no_stock_keywords : Contains(response_text, k)

PatternFound(response_text) ==
    \E p \in DOMAIN pin_patterns :
        \E i \in 1..Len(response_text) :
            MatchesAt(response_text, i, pin_patterns[p])

has_stock(text) ==
    LET response_text == LowerText(text)
    IN IF ~HasKeyword(response_text) THEN TRUE
       ELSE PatternFound(response_text)


\* --------------------------------------------------------- vendor client
\* What one HTTP GET to the vendor can come back with.
VendorResponses ==
    {"timeout", "connection", "http_error", "json_error", "json_nondict",
     "json_pin", "json_nopin", "text_pin", "text_nopin"}

\* The GET got an HTTP response (no timeout, no connection failure)
Reached(resp) == resp \notin {"timeout", "connection"}

\* The vendor hands out a code in these responses.
MintingResponses == {"json_pin", "text_pin"}

\* _make_request: the typed result of one GET
make_request(resp) ==
    CASE resp = "timeout" -> [status |-> "error", error_type |-> "timeout"]
      [] resp = "connection" -> [status |-> "error", error_type |-> "connection"]
      [] resp = "http_error" -> [status |-> "error", error_type |-> "request"]
      [] resp = "json_error" -> [status |-> "error", error_type |-> "vendor"]
      [] resp = "json_nondict" -> [status |-> "not_a_dict"]
      [] resp = "json_pin" -> [status |-> "success", raw_response |-> FALSE, has_pin |-> TRUE]
      [] resp = "json_nopin" -> [status |-> "success", raw_response |-> FALSE, has_pin |-> FALSE]
      [] resp = "text_pin" -> [status |-> "success", raw_response |-> TRUE, has_pin |-> TRUE]
      [] OTHER -> [status |-> "success", raw_response |-> TRUE, has_pin |-> FALSE]

\* test_connection / is_available (result.get on a payload that is not a
\* dict raises; is_available catches it and answers False)
is_available(resp) == make_request(resp).status = "success"

\* _process_pin_response
process_pin_response(result, code) ==
    IF result.has_pin
    THEN [status |-> "success", pin_code |-> code, source |-> "inefable_api"]
    ELSE [status |-> "error", error_type |-> "parse_error"]

\* request_pin
request_pin(m, resp, code) ==
    IF m \notin monto_mapping
    THEN [status |-> "error", error_type |-> "validation"]
    ELSE LET result == make_request(resp) IN
         IF result.status = "not_a_dict"
         THEN \* result.get raises AttributeError: the except of request_pin
              [status |-> "error", error_type |-> "unexpected"]
         ELSE IF result.status = "success"
         THEN process_pin_response(result, code)
         ELSE result

\* The query of one GET: usuario and clave are the same in every request
Params(monto, numero) ==
    [action |-> "recarga", tipo |-> "recargaPinFreefirebs",
     monto |-> monto, numero |-> numero]

\* params of test_connection: monto 1, numero 0
test_connection_params == Params(1, 0)

\* params of request_pin(monto_id): monto_mapping maps each id to itself and
\* the allocator leaves numero_destino at its default 0
request_pin_params(m) == Params(m, 0)

\* params of check_stock_availability(monto_id)
check_stock_availability_params(m) == Params(m, 0)

\* The queries the vendor serves as a purchase, and what it can answer to a
\* query: it hands out a code only for a purchase query
PurchaseQueries == {request_pin_params(m) : m \in monto_mapping}
Answers(params) ==
    IF params \in PurchaseQueries THEN VendorResponses
    ELSE VendorResponses \ MintingResponses

\* The vendor's counter after answering `resp`.
MintAfter(resp) == IF resp \in MintingResponses THEN minted + 1 ELSE minted

\* request_pin sends no request for an id outside monto_mapping
MintAfterPurchase(m, resp) == IF m \in monto_mapping THEN MintAfter(resp) ELSE minted
ReachedByPurchase(m, resp) == m \in monto_mapping /\ Reached(resp)

\* ------------------------------------------------------------- allocator
\* get_local_stock returns a count only `if monto_id:`; for a falsy id it
\* returns the dict of all counts, and comparing that dict with a number
\* raises TypeError in the caller
StockIsCount(m) == m # 0

\* except Exception as e: ... of both allocator operations
Unexpected == [status |-> "error", error_type |-> "unexpected"]

NoPin == [id |-> 0]
NoResult == [status |-> "none"]

IdleReq ==
    [pc |-> "idle", op |-> "none", monto_id |-> 0, cantidad |-> 0,
     use_external_api |-> FALSE, local_stock |-> 0,
     pines_desde_local |-> 0, pines_desde_externa |-> 0, i |-> 0,
     local_pin |-> NoPin, pin_code |-> <<>>, pines_obtenidos |-> <<>>,
     calls |-> <<>>, pines0 |-> {}, result |-> NoResult]

\* Mutant: a shortfall is reported as a failure, the codes taken are dropped
ClassifyAllOrNothing(q) ==
    IF Len(q.pines_obtenidos) = q.cantidad
    THEN [status |-> "success", pins |-> q.pines_obtenidos,
          cantidad_solicitada |-> q.cantidad,
          cantidad_obtenida |-> Len(q.pines_obtenidos),
          monto_id |-> q.monto_id]
    ELSE [status |-> "error", error_type |-> "no_pins_available",
          cantidad_solicitada |-> q.cantidad, local_stock |-> q.local_stock]

\* Mutant: any code obtained counts as full success
ClassifySuccessIfAny(q) ==
    IF Len(q.pines_obtenidos) > 0
    THEN [status |-> "success", pins |-> q.pines_obtenidos,
          cantidad_solicitada |-> q.cantidad,
          cantidad_obtenida |-> Len(q.pines_obtenidos),
          monto_id |-> q.monto_id]
    ELSE [status |-> "error", error_type |-> "no_pins_available",
          cantidad_solicitada |-> q.cantidad, local_stock |-> q.local_stock]

\* The final classification of request_multiple_pins
ClassifyMultiple(q) ==
    IF Len(q.pines_obtenidos) = q.cantidad
    THEN [status |-> "success", pins |-> q.pines_obtenidos,
          cantidad_solicitada |-> q.cantidad,
          cantidad_obtenida |-> Len(q.pines_obtenidos),
          monto_id |-> q.monto_id]
    ELSE IF Len(q.pines_obtenidos) > 0
    THEN [status |-> "partial_success", pins |-> q.pines_obtenidos,
          cantidad_solicitada |-> q.cantidad,
          cantidad_obtenida |-> Len(q.pines_obtenidos),
          monto_id |-> q.monto_id]
    ELSE [status |-> "error", error_type |-> "no_pins_available",
          cantidad_solicitada |-> q.cantidad, local_stock |-> q.local_stock]

FinishMultiple(q) == [q EXCEPT !.pc = "done", !.result = ClassifyMultiple(q)]

\* Mutant: the vendor part runs on a shortfall whatever use_external_api says
AfterLocalMultipleAnyFlag(q) ==
    IF q.pines_desde_externa > 0
    THEN [q EXCEPT !.pc = "rm_probe", !.i = 0]
    ELSE FinishMultiple(q)

\* After the local loop: the vendor part runs only on a shortfall with fallback
AfterLocalMultiple(q) ==
    IF q.pines_desde_externa > 0 /\ q.use_external_api
    THEN [q EXCEPT !.pc = "rm_probe", !.i = 0]
    ELSE FinishMultiple(q)

\* call of request_multiple_pins(monto_id, cantidad, use_external_api)
\* Mutant: only negative quantities are rejected
RM_StartZeroAllowed(m, n, ext) ==
    LET q == [IdleReq EXCEPT !.op = "multiple", !.monto_id = m,
                             !.cantidad = n, !.use_external_api = ext,
                             !.pines0 = pines]
    IN IF n < 0
       THEN [q EXCEPT !.pc = "done",
                      !.result = [status |-> "error",
                                  error_type |-> "validation"]]
       ELSE [q EXCEPT !.pc = "rm_count"]

\* entry of request_multiple_pins: the quantity check
RM_Start(m, n, ext) ==
    LET q == [IdleReq EXCEPT !.op = "multiple", !.monto_id = m,
                             !.cantidad = n, !.use_external_api = ext,
                             !.pines0 = pines]
    IN IF n <= 0
       THEN [q EXCEPT !.pc = "done",
                      !.result = [status |-> "error",
                                  error_type |-> "validation"]]
       ELSE [q EXCEPT !.pc = "rm_count"]

RM_Call(r, m, n, ext) ==
    /\ req[r].pc = "idle"
    /\ nreq < MaxRequests
    /\ req' = [req EXCEPT ![r] = RM_Start(m, n, ext)]
    /\ nreq' = nreq + 1
    /\ UNCHANGED <<pines, next_id, minted, delivered, shop, maint>>

RM_Begin(r) ==
    \E m \in Packages, n \in Cantidades, ext \in BOOLEAN : RM_Call(r, m, n, ext)

\* pines_desde_local = min(cantidad, local_stock)
PlanLocal(cantidad, local_stock) == Min(cantidad, local_stock)

\* Mutant: the vendor is asked for the whole quantity
PlanExternaWhole(cantidad, pines_desde_local) == cantidad

\* pines_desde_externa = cantidad - pines_desde_local
PlanExterna(cantidad, pines_desde_local) == cantidad - pines_desde_local

\* local_stock = self.get_local_stock(monto_id) and the plan
RM_Count(r) ==
    /\ req[r].pc = "rm_count"
    /\ LET stock == get_local_stock(req[r].monto_id)
           q == [req[r] EXCEPT !.local_stock = stock,
                               !.pines_desde_local = PlanLocal(req[r].cantidad, stock),
                               !.pines_desde_externa =
                                   PlanExterna(req[r].cantidad,
                                               PlanLocal(req[r].cantidad, stock))]
       IN req' = [req EXCEPT ![r] =
               IF ~StockIsCount(req[r].monto_id)
               THEN [req[r] EXCEPT !.pc = "done", !.result = Unexpected]
               ELSE IF q.pines_desde_local > 0
               THEN [q EXCEPT !.pc = "rm_get"]
               ELSE AfterLocalMultiple(q)]
    /\ UNCHANGED <<pines, next_id, minted, delivered, nreq, shop, maint>>

\* local_pin = self.get_local_pin(monto_id): any unused row (LIMIT 1, no ORDER BY)
RM_GetLocal(r) ==
    /\ req[r].pc = "rm_get"
    /\ IF UnusedRows(req[r].monto_id) = {}
       THEN req' = [req EXCEPT ![r] = AfterLocalMultiple(req[r])]
       ELSE \E row \in UnusedRows(req[r].monto_id) :
              req' = [req EXCEPT ![r] = [req[r] EXCEPT !.pc = "rm_remove",
                                                       !.local_pin = row]]
    /\ UNCHANGED <<pines, next_id, minted, delivered, nreq, shop, maint>>

\* Mutant: the row is handed out only if the DELETE found it
AppendLocalIfDeleted(q) ==
    IF \E row \in pines : row.id = q.local_pin.id
    THEN [q EXCEPT !.pines_obtenidos =
                       Append(@, [pin_code |-> q.local_pin.pin_codigo,
                                  source |-> "local_stock"]),
                   !.i = @ + 1]
    ELSE [q EXCEPT !.i = @ + 1]

\* pines_obtenidos.append({...local_pin...}): the row read is handed out
\* whatever the DELETE found
AppendLocal(q) ==
    [q EXCEPT !.pines_obtenidos =
                  Append(@, [pin_code |-> q.local_pin.pin_codigo,
                             source |-> "local_stock"]),
              !.i = @ + 1]

\* self.remove_local_pin(local_pin['id']) and the append
RM_Remove(r) ==
    /\ req[r].pc = "rm_remove"
    /\ pines' = remove_local_pin(req[r].local_pin.id)
    /\ LET q == AppendLocal(req[r])
       IN req' = [req EXCEPT ![r] =
               IF q.i < q.pines_desde_local
               THEN [q EXCEPT !.pc = "rm_get"]
               ELSE AfterLocalMultiple(q)]
    /\ UNCHANGED <<next_id, minted, delivered, nreq, shop, maint>>

\* self.inefable_client.is_available()
RM_Probe(r) ==
    /\ req[r].pc = "rm_probe"
    /\ \E resp \in Answers(test_connection_params) :
         /\ minted' = MintAfter(resp)
         /\ LET q == [req[r] EXCEPT
                        !.calls = Append(@, [kind |-> "probe",
                                             ok |-> is_available(resp),
                                             reached |-> Reached(resp)])]
            IN req' = [req EXCEPT ![r] =
                    IF is_available(resp)
                    THEN [q EXCEPT !.pc = "rm_buy"]
                    ELSE FinishMultiple(q)]
    /\ UNCHANGED <<pines, next_id, delivered, nreq, shop, maint>>

\* Mutant: a failed vendor call is skipped and the loop goes on
AfterBuyFailureContinue(q) ==
    IF q.i + 1 < q.pines_desde_externa
    THEN [q EXCEPT !.pc = "rm_buy", !.i = @ + 1]
    ELSE FinishMultiple(q)

\* else: logger.error(...); break   -- a failed vendor call ends the loop
AfterBuyFailure(q) == FinishMultiple(q)

\* external_result = self.inefable_client.request_pin(monto_id)
RM_Buy(r) ==
    /\ req[r].pc = "rm_buy"
    /\ \E resp \in VendorResponses :
         LET external_result == request_pin(req[r].monto_id, resp,
                                            VendorCode(minted + 1))
             ok == external_result.status = "success"
             q == [req[r] EXCEPT
                     !.calls = Append(@, [kind |-> "purchase", ok |-> ok,
                                          reached |->
                                              ReachedByPurchase(req[r].monto_id, resp)])]
         IN /\ minted' = MintAfterPurchase(req[r].monto_id, resp)
            /\ req' = [req EXCEPT ![r] =
                    IF ok
                    THEN [q EXCEPT !.pc = "rm_add",
                                   !.pin_code = external_result.pin_code,
                                   !.pines_obtenidos =
                                       Append(@, [pin_code |-> external_result.pin_code,
                                                  source |-> "inefable_api"])]
                    ELSE AfterBuyFailure(q)]
    /\ UNCHANGED <<pines, next_id, delivered, nreq, shop, maint>>

\* self.add_local_pin(monto_id, pin_code, source='inefable_api')
RM_Add(r) ==
    /\ req[r].pc = "rm_add"
    /\ pines' = add_local_pin(req[r].monto_id, req[r].pin_code)
    /\ next_id' = add_local_pin_next_id(req[r].monto_id, req[r].pin_code)
    /\ LET q == [req[r] EXCEPT !.i = @ + 1]
       IN req' = [req EXCEPT ![r] =
               IF q.i < q.pines_desde_externa
               THEN [q EXCEPT !.pc = "rm_buy"]
               ELSE FinishMultiple(q)]
    /\ UNCHANGED <<minted, delivered, nreq, shop, maint>>

\* ------------------------------------------- request_pin_with_fallback
FinishSingle(q, res) == [q EXCEPT !.pc = "done", !.result = res]

\* Mutant: the vendor is asked for a code without the availability probe
AfterLocalSingleNoProbe(q) ==
    IF q.use_external_api
    THEN [q EXCEPT !.pc = "rp_buy"]
    ELSE FinishSingle(q, [status |-> "error", error_type |-> "no_local_stock",
                          local_stock |-> q.local_stock])

\* Step 2 of request_pin_with_fallback: local stock gave nothing
AfterLocalSingle(q) ==
    IF q.use_external_api
    THEN [q EXCEPT !.pc = "rp_probe"]
    ELSE FinishSingle(q, [status |-> "error", error_type |-> "no_local_stock",
                          local_stock |-> q.local_stock])

\* call of request_pin_with_fallback(monto_id, use_external_api)
RP_Call(r, m, ext) ==
    /\ req[r].pc = "idle"
    /\ nreq < MaxRequests
    /\ req' = [req EXCEPT ![r] =
              [IdleReq EXCEPT !.op = "single", !.monto_id = m,
                              !.cantidad = 1, !.use_external_api = ext,
                              !.pines0 = pines, !.pc = "rp_count"]]
    /\ nreq' = nreq + 1
    /\ UNCHANGED <<pines, next_id, minted, delivered, shop, maint>>

RP_Begin(r) == \E m \in Packages, ext \in BOOLEAN : RP_Call(r, m, ext)

\* local_stock = self.get_local_stock(monto_id)
RP_Count(r) ==
    /\ req[r].pc = "rp_count"
    /\ LET q == [req[r] EXCEPT !.local_stock = get_local_stock(req[r].monto_id)]
       IN req' = [req EXCEPT ![r] =
               IF ~StockIsCount(req[r].monto_id)
               THEN FinishSingle(req[r], Unexpected)
               ELSE IF q.local_stock > 0
               THEN [q EXCEPT !.pc = "rp_get"]
               ELSE AfterLocalSingle(q)]
    /\ UNCHANGED <<pines, next_id, minted, delivered, nreq, shop, maint>>

\* local_pin = self.get_local_pin(monto_id)
RP_GetLocal(r) ==
    /\ req[r].pc = "rp_get"
    /\ IF UnusedRows(req[r].monto_id) = {}
       THEN req' = [req EXCEPT ![r] = AfterLocalSingle(req[r])]
       ELSE \E row \in UnusedRows(req[r].monto_id) :
              req' = [req EXCEPT ![r] = [req[r] EXCEPT !.pc = "rp_remove",
                                                       !.local_pin = row]]
    /\ UNCHANGED <<pines, next_id, minted, delivered, nreq, shop, maint>>

\* self.remove_local_pin(local_pin['id']) and the success result
RP_Remove(r) ==
    /\ req[r].pc = "rp_remove"
    /\ pines' = remove_local_pin(req[r].local_pin.id)
    /\ req' = [req EXCEPT ![r] =
            FinishSingle(req[r],
                [status |-> "success",
                 pin_code |-> req[r].local_pin.pin_codigo,
                 monto_id |-> req[r].monto_id, source |-> "local_stock",
                 stock_remaining |-> req[r].local_stock - 1])]
    /\ UNCHANGED <<next_id, minted, delivered, nreq, shop, maint>>

\* self.inefable_client.is_available()
RP_Probe(r) ==
    /\ req[r].pc = "rp_probe"
    /\ \E resp \in Answers(test_connection_params) :
         /\ minted' = MintAfter(resp)
         /\ LET q == [req[r] EXCEPT
                        !.calls = Append(@, [kind |-> "probe",
                                             ok |-> is_available(resp),
                                             reached |-> Reached(resp)])]
            IN req' = [req EXCEPT ![r] =
                    IF is_available(resp)
                    THEN [q EXCEPT !.pc = "rp_buy"]
                    ELSE FinishSingle(q, [status |-> "error",
                                          error_type |-> "no_stock_no_api",
                                          local_stock |-> q.local_stock])]
    /\ UNCHANGED <<pines, next_id, delivered, nreq, shop, maint>>

\* external_result = self.inefable_client.request_pin(monto_id)
RP_Buy(r) ==
    /\ req[r].pc = "rp_buy"
    /\ \E resp \in VendorResponses :
         LET external_result == request_pin(req[r].monto_id, resp,
                                            VendorCode(minted + 1))
             ok == external_result.status = "success"
             q == [req[r] EXCEPT
                     !.calls = Append(@, [kind |-> "purchase", ok |-> ok,
                                          reached |->
                                              ReachedByPurchase(req[r].monto_id, resp)])]
         IN /\ minted' = MintAfterPurchase(req[r].monto_id, resp)
            /\ req' = [req EXCEPT ![r] =
                    IF ok
                    THEN [q EXCEPT !.pc = "rp_add",
                                   !.pin_code = external_result.pin_code]
                    ELSE FinishSingle(q, [status |-> "error",
                                          error_type |-> "external_api_error",
                                          local_stock |-> q.local_stock])]
    /\ UNCHANGED <<pines, next_id, delivered, nreq, shop, maint>>

\* self.add_local_pin(monto_id, pin_code, source='inefable_api') and the result
RP_Add(r) ==
    /\ req[r].pc = "rp_add"
    /\ pines' = add_local_pin(req[r].monto_id, req[r].pin_code)
    /\ next_id' = add_local_pin_next_id(req[r].monto_id, req[r].pin_code)
    /\ req' = [req EXCEPT ![r] =
            FinishSingle(req[r],
                [status |-> "success", pin_code |-> req[r].pin_code,
                 monto_id |-> req[r].monto_id, source |-> "inefable_api",
                 local_stock |-> req[r].local_stock])]
    /\ UNCHANGED <<minted, delivered, nreq, shop, maint>>

\* ------------------------------------------------- check_combined_stock
\* check_stock_availability: for a 200 response `available` is the has_stock
\* of its text (`stock`); every other result is an error with a message and
\* available False (result.get on a payload that is not a dict raises, and
\* the except of check_stock_availability answers the same)
check_stock_availability(m, resp, stock) ==
    IF m \notin monto_mapping
    THEN [status |-> "error", available |-> FALSE, message |-> "no valido"]
    ELSE IF make_request(resp).status # "success"
    THEN [status |-> "error", available |-> FALSE,
          message |-> "Error al verificar stock"]
    ELSE [status |-> "success", available |-> stock,
          message |-> IF stock THEN "Stock disponible"
                      ELSE "Sin stock en API externa"]

\* has_stock of the texts a response of kind `resp` can carry: a text with a
\* code in it has a pin pattern in it
StockWords(resp) == IF resp \in MintingResponses THEN {TRUE} ELSE BOOLEAN

\* ------------------------------------- the vendor client on one response
\* Pieces the response texts are made of
Pieces ==
    {<<"S", "i", "n", " ", "s", "t", "o", "c", "k", " ">>,
     <<"d", "i", "s", "p", "o", "n", "i", "b", "l", "e">>,
     <<"P", "i", "n", ":", " ">>,
     <<"A", "B", "1", "2", "C", "D", "3", "4", "E", "F", "5", "6">>,
     <<"A", "B", "1", "2", "C", "D", "3", "4", "E">>,
     <<"A", "B", "C", "D", "E", "1", "2", "3", "4", "5">>,
     <<"C", "O", "D", "I", "G", "O", ":">>,
     <<"a", "g", "o", "t", "a", "d", "o", " ">>,
     <<"o", "k", " ">>,
     <<"X", "1", "Y", "2", "Z", "3", "W", "4", "V", "5", "U", "6", "T", "7", "S", "8", "R", "9", "Q", "0", "P">>,
     <<"C", "ó", "d", "i", "g", "o", ":", " ">>,
     <<"<", "h", "t", "m", "l", ">">>,
     <<"P", "I", "N", ":", "A", "B", "C", "D", "E", "1", "2", "3", "4", "5">>}

\* the texts of at most n pieces
RECURSIVE TextsOf(_)
TextsOf(n) ==
    IF n = 0 THEN {<<>>}
    ELSE LET S == TextsOf(n - 1) IN S \cup {t \o p : t \in S, p \in Pieces}

Texts == TextsOf(MaxPieces)

\* values of a field of a structured payload: absent, a code, a short code
FieldValues == {<<>>, <<"A", "B", "1", "2", "C", "D", "3", "4", "E", "F", "5", "6">>, <<"X", "9">>}

\* response['data'] of a structured payload
JsonDatas == [pin : FieldValues, codigo : FieldValues, pin_code : FieldValues]

NoData == [pin |-> <<>>, codigo |-> <<>>, pin_code |-> <<>>]

Payload(kind, data, text) == [kind |-> kind, data |-> data, text |-> text]

\* what the vendor can answer: no answer, an HTTP error, an error payload, a
\* JSON payload that is not an object, a JSON object, a text
FailureKinds == {"timeout", "connection", "http_error", "json_error", "json_nondict"}

Payloads ==
    {Payload(k, NoData, <<>>) : k \in FailureKinds}
        \cup {Payload("json", d, <<>>) : d \in JsonDatas}
        \cup {Payload("text", NoData, t) : t \in Texts}

\* Mutant: pin_code is looked at before codigo
JsonPinCodeFirst(data) ==
    IF data.pin # <<>> THEN data.pin
    ELSE IF data.pin_code # <<>> THEN data.pin_code
    ELSE data.codigo

\* data.get('pin') or data.get('codigo') or data.get('pin_code')
JsonPin(data) ==
    IF data.pin # <<>> THEN data.pin
    ELSE IF data.codigo # <<>> THEN data.codigo
    ELSE data.pin_code

\* the code _process_pin_response finds in the payload; <<>> for none
ParsedPin(payload) ==
    IF payload.kind = "json" THEN JsonPin(payload.data)
    ELSE IF payload.kind = "text" THEN extract_pin_from_text(payload.text)
    ELSE <<>>

\* the kind of response a payload is
ResponseOf(payload) ==
    IF payload.kind = "json"
    THEN IF ParsedPin(payload) # <<>> THEN "json_pin" ELSE "json_nopin"
    ELSE IF payload.kind = "text"
    THEN IF ParsedPin(payload) # <<>> THEN "text_pin" ELSE "text_nopin"
    ELSE payload.kind

\* str(data) of a dict: {'pin': 'AB12CD34EF56', 'codigo': 'X9'}
ReprItem(name, value) == <<"'">> \o name \o <<"'", ":", " ", "'">> \o value \o <<"'">>

RECURSIVE JoinItems(_)
JoinItems(items) ==
    IF items = <<>> THEN <<>>
    ELSE IF Len(items) = 1 THEN items[1]
    ELSE items[1] \o <<",", " ">> \o JoinItems(Tail(items))

ReprDict(data) ==
    LET all == <<[name |-> <<"p", "i", "n">>, value |-> data.pin],
                 [name |-> <<"c", "o", "d", "i", "g", "o">>, value |-> data.codigo],
                 [name |-> <<"p", "i", "n", "_", "c", "o", "d", "e">>, value |-> data.pin_code]>>
        present == SelectSeq(all, LAMBDA f : f.value # <<>>)
    IN <<"{">> \o JoinItems([k \in 1..Len(present) |->
                                ReprItem(present[k].name, present[k].value)])
              \o <<"}">>

\* response_text = str(result.get('data', ''))
PayloadText(payload) ==
    IF payload.kind = "json" THEN ReprDict(payload.data)
    ELSE IF payload.kind = "text" THEN payload.text
    ELSE <<>>

VendorOps == {"request_pin", "check_stock_availability"}

\* ids the client is called with: the packages and the first id after monto_mapping
VendorMontos == Packages \cup {MontoMappingMax + 1}

\* the call returns
VendorApply ==
    /\ vcall.pc = "input"
    /\ LET resp == ResponseOf(vcall.payload)
           result ==
               IF vcall.op = "request_pin"
               THEN request_pin(vcall.monto_id, resp, ParsedPin(vcall.payload))
               ELSE check_stock_availability(vcall.monto_id, resp,
                                             has_stock(PayloadText(vcall.payload)))
       IN vcall' = [vcall EXCEPT !.pc = "output", !.result = result]
    /\ UNCHANGED <<pines, next_id, minted, req, delivered, nreq, shop,
                   tx_id, reloj, admop, otros>>


\* call of check_combined_stock(monto_id)
CK_Begin(r) ==
    /\ req[r].pc = "idle"
    /\ nreq < MaxRequests
    /\ \E m \in Packages :
         req' = [req EXCEPT ![r] =
                   [IdleReq EXCEPT !.op = "check", !.monto_id = m,
                                   !.pines0 = pines, !.pc = "ck_count"]]
    /\ nreq' = nreq + 1
    /\ UNCHANGED <<pines, next_id, minted, delivered, shop, maint>>

\* local_stock = self.get_local_stock(monto_id)
CK_Count(r) ==
    /\ req[r].pc = "ck_count"
    /\ req' = [req EXCEPT ![r] =
            [req[r] EXCEPT !.local_stock = get_local_stock(req[r].monto_id),
                           !.pc = "ck_probe"]]
    /\ UNCHANGED <<pines, next_id, minted, delivered, nreq, shop, maint>>

CombinedResult(q, external_available) ==
    [status |-> "success", monto_id |-> q.monto_id,
     local_stock |-> q.local_stock,
     external_available |-> external_available,
     total_available |-> (q.local_stock > 0 \/ external_available)]

\* if self.inefable_client.is_available():
CK_Probe(r) ==
    /\ req[r].pc = "ck_probe"
    /\ \E resp \in Answers(test_connection_params) :
         /\ minted' = MintAfter(resp)
         /\ LET q == [req[r] EXCEPT
                        !.calls = Append(@, [kind |-> "probe",
                                             ok |-> is_available(resp),
                                             reached |-> Reached(resp)])]
            IN req' = [req EXCEPT ![r] =
                    IF is_available(resp)
                    THEN [q EXCEPT !.pc = "ck_stock"]
                    ELSE [q EXCEPT !.pc = "done",
                                   !.result = CombinedResult(q, FALSE)]]
    /\ UNCHANGED <<pines, next_id, delivered, nreq, shop, maint>>

\* Mutant: a code that comes back with the stock check is stored as stock
CK_StockStoresPin(r) ==
    /\ req[r].pc = "ck_stock"
    /\ \E resp \in Answers(check_stock_availability_params(req[r].monto_id)) :
       \E words \in StockWords(resp) :
         /\ minted' = MintAfter(resp)
         /\ pines' = IF resp \in MintingResponses
                     THEN add_local_pin(req[r].monto_id, VendorCode(minted + 1))
                     ELSE pines
         /\ next_id' = IF resp \in MintingResponses
                       THEN add_local_pin_next_id(req[r].monto_id,
                                                  VendorCode(minted + 1))
                       ELSE next_id
         /\ LET avail == check_stock_availability(req[r].monto_id, resp, words).available
                q == [req[r] EXCEPT
                        !.calls = Append(@, [kind |-> "stock_check",
                                             ok |-> avail,
                                             reached |-> Reached(resp)])]
            IN req' = [req EXCEPT ![r] =
                    [q EXCEPT !.pc = "done",
                              !.result = CombinedResult(q, avail)]]
    /\ UNCHANGED <<delivered, nreq, shop, maint>>

\* stock_check = self.inefable_client.check_stock_availability(monto_id)
CK_Stock(r) ==
    /\ req[r].pc = "ck_stock"
    /\ \E resp \in Answers(check_stock_availability_params(req[r].monto_id)) :
       \E words \in StockWords(resp) :
         /\ minted' = MintAfter(resp)
         /\ LET avail == check_stock_availability(req[r].monto_id, resp, words).available
                q == [req[r] EXCEPT
                        !.calls = Append(@, [kind |-> "stock_check",
                                             ok |-> avail,
                                             reached |-> Reached(resp)])]
            IN req' = [req EXCEPT ![r] =
                    [q EXCEPT !.pc = "done",
                              !.result = CombinedResult(q, avail)]]
    /\ UNCHANGED <<pines, next_id, delivered, nreq, shop, maint>>

\* The codes a finished request hands to its caller
ResultCodes(q) ==
    IF q.op = "multiple" /\ q.result.status \in {"success", "partial_success"}
    THEN {q.result.pins[k].pin_code : k \in 1..Len(q.result.pins)}
    ELSE IF q.op = "single" /\ q.result.status = "success"
    THEN {q.result.pin_code}
    ELSE {}

\* The caller receives the result
Return(r) ==
    /\ req[r].pc = "done"
    /\ hreq[r].pc = "idle"
    /\ delivered' = delivered \cup ResultCodes(req[r])
    /\ req' = [req EXCEPT ![r] = IdleReq]
    /\ UNCHANGED <<pines, next_id, minted, nreq, shop, maint>>

\* ------------------------------------------------ validar_freefire_latam
\* Quantities the purchase form accepts: 1..10
MaxCantidadForm == 10
\* Purchase records kept per user
RetentionLimit == 20
\* session['user_db_id'] of the admin login; the customer is another user
AdminId == 0
Customer == AdminId + 1

IdleHandler ==
    [pc |-> "idle", monto_id |-> 0, cantidad |-> 0, cantidad_pedida |-> 0,
     precio_unitario |-> 0, precio_total |-> 0, saldo_actual |-> 0,
     saldo_antes |-> 0, outcome |-> "none"]

\* get_price_by_id: the price of an active package, else 0
get_price_by_id(m) ==
    IF m \in DOMAIN precios /\ precios[m].activo THEN precios[m].precio ELSE 0

\* precio_total = precio_unitario * cantidad (computed once, before the allocator runs)
PrecioTotal(precio_unitario, cantidad) == precio_unitario * cantidad

UserId(r) == IF session[r].is_admin THEN AdminId ELSE Customer

\* the rows of one user, by position
UserRows(txs, uid) == {i \in 1..Len(txs) : txs[i].usuario_id = uid}

RemoveAt(txs, i) == SubSeq(txs, 1, i - 1) \o SubSeq(txs, i + 1, Len(txs))

\* DELETE FROM transacciones WHERE usuario_id = ? AND id NOT IN
\*   (SELECT id ... WHERE usuario_id = ? ORDER BY fecha DESC LIMIT 20):
\* the rows kept are 20 rows of greatest fecha; fecha has a resolution of one
\* second and the order of rows of equal fecha is not specified, so each way
\* of breaking a tie at the cut is a possible result
RECURSIVE TrimChoices(_, _)
TrimChoices(txs, uid) ==
    LET U == UserRows(txs, uid)
        oldest == {i \in U : \A j \in U : txs[i].fecha <= txs[j].fecha}
    IN IF Cardinality(U) <= RetentionLimit THEN {txs}
       ELSE UNION {TrimChoices(RemoveAt(txs, i), uid) : i \in oldest}

\* a row of transacciones as the INSERT creates it
NewTx(uid, pin, is_admin, monto) ==
    [id |-> tx_id, usuario_id |-> uid, pin |-> pin, admin |-> is_admin,
     monto |-> monto, fecha |-> reloj]

EndHandler(h, outcome) == [h EXCEPT !.pc = "end", !.outcome = outcome]

\* POST /validar/freefire_latam up to the call of the allocator
H_Begin(r) ==
    /\ hreq[r].pc = "idle"
    /\ req[r].pc = "idle"
    /\ nreq < MaxRequests
    /\ nreq' = nreq + 1
    /\ \E m \in Packages, n \in 0..MaxCantidad :
         LET precio_unitario == get_price_by_id(m)
             precio_total == PrecioTotal(precio_unitario, n)
             h == [IdleHandler EXCEPT !.monto_id = m, !.cantidad = n,
                                      !.cantidad_pedida = n,
                                      !.precio_unitario = precio_unitario,
                                      !.precio_total = precio_total,
                                      !.saldo_actual = session[r].saldo]
         IN IF n < 1 \/ n > MaxCantidadForm
            THEN /\ hreq' = [hreq EXCEPT ![r] = EndHandler(h, "cantidad_invalida")]
                 /\ req' = req
            ELSE IF precio_unitario = 0
            THEN /\ hreq' = [hreq EXCEPT ![r] = EndHandler(h, "paquete_inactivo")]
                 /\ req' = req
            ELSE IF ~session[r].is_admin /\ session[r].saldo < precio_total
            THEN /\ hreq' = [hreq EXCEPT ![r] = EndHandler(h, "saldo_insuficiente")]
                 /\ req' = req
            ELSE IF n = 1
            THEN \* pin_manager.request_pin does not exist: AttributeError,
                 \* caught by the handler's outer except
                 /\ hreq' = [hreq EXCEPT ![r] = EndHandler(h, "error_inesperado")]
                 /\ req' = req
            ELSE /\ hreq' = [hreq EXCEPT ![r] = [h EXCEPT !.pc = "alloc"]]
                 /\ req' = [req EXCEPT ![r] = RM_Start(m, n, TRUE)]
    /\ UNCHANGED <<pines, next_id, minted, delivered,
                   saldo, session, precios, transacciones, maint>>

\* The handler after request_multiple_pins returned: the database transaction
H_Persist(r) ==
    /\ hreq[r].pc = "alloc"
    /\ req[r].pc = "done"
    /\ LET result == req[r].result
           h == hreq[r]
       IN IF result.status \notin {"success", "partial_success"}
          THEN /\ hreq' = [hreq EXCEPT ![r] = EndHandler(h, "error_pines")]
               /\ UNCHANGED <<saldo, session, transacciones, delivered, tx_id>>
          ELSE LET pines_codigos == [k \in 1..Len(result.pins) |-> result.pins[k].pin_code]
                   cantidad == IF result.status = "partial_success"
                               THEN Len(pines_codigos) ELSE h.cantidad
                   h2 == [h EXCEPT !.cantidad = cantidad, !.saldo_antes = saldo]
                   tx == NewTx(UserId(r), pines_codigos, session[r].is_admin,
                               0 - h.precio_total)
               IN \E commit \in BOOLEAN :
                    IF commit
                    THEN /\ saldo' = IF session[r].is_admin THEN saldo
                                     ELSE saldo - h.precio_total
                         /\ transacciones' \in
                                TrimChoices(Append(transacciones, tx), UserId(r))
                         /\ tx_id' = tx_id + 1
                         /\ session' = IF session[r].is_admin THEN session
                                       ELSE [session EXCEPT ![r].saldo =
                                                h.saldo_actual - h.precio_total]
                         /\ delivered' = delivered \cup ResultCodes(req[r])
                         /\ hreq' = [hreq EXCEPT ![r] = EndHandler(h2, "compra_exitosa")]
                    ELSE \* conn.rollback()
                         /\ hreq' = [hreq EXCEPT ![r] = EndHandler(h2, "error_transaccion")]
                         /\ UNCHANGED <<saldo, session, transacciones, delivered, tx_id>>
    /\ UNCHANGED <<pines, next_id, minted, req, nreq, precios, reloj, vcall, admop,
                   otros>>

\* The redirect: the request is over
H_End(r) ==
    /\ hreq[r].pc = "end"
    /\ hreq' = [hreq EXCEPT ![r] = IdleHandler]
    /\ req' = [req EXCEPT ![r] = IdleReq]
    /\ UNCHANGED <<pines, next_id, minted, delivered, nreq,
                   saldo, session, precios, transacciones, maint>>

\* ------------------------------------------------------------------ Init
NoCall == [pc |-> "none"]

IdleGlobal ==
    [pc |-> "idle", monto_id |-> 0, cantidad |-> 0, precio_total |-> 0,
     saldo_actual |-> 0, stock_disponible |-> 0, i |-> 0, pin |-> NoPin,
     pines_obtenidos |-> <<>>, outcome |-> "none"]

\* no Blood Striker transaction, no Free Fire Global code, no purchase of
\* either under way
OtrosIdle ==
    /\ bstx = <<>>
    /\ pines_global = {}
    /\ greq = [r \in Procs |-> IdleGlobal]

\* no maintenance operation and no vendor call under way; the first id of an
\* AUTOINCREMENT column is 1
MaintIdle ==
    /\ tx_id = 1
    /\ reloj = 0
    /\ vcall = NoCall
    /\ admop = NoCall
    /\ OtrosIdle

\* The admin has loaded c[m] distinct codes for each package m.
InitialRows(c) ==
    {Row((mk[1] - 1) * MaxStock + mk[2], mk[1],
         LocalCode((mk[1] - 1) * MaxStock + mk[2])) :
        mk \in {x \in Packages \X (1..MaxStock) : x[2] <= c[x[1]]}}

Init ==
    /\ \E c \in [Packages -> 0..MaxStock] : pines = InitialRows(c)
    /\ next_id = MaxPackage * MaxStock + 1
    /\ minted = 0
    /\ req = [r \in Procs |-> IdleReq]
    /\ delivered = {}
    /\ nreq = 0
    /\ saldo = 0
    /\ session = [r \in Procs |-> [is_admin |-> FALSE, saldo |-> 0]]
    /\ precios = [m \in Packages |-> [precio |-> 1, activo |-> TRUE]]
    /\ transacciones = <<>>
    /\ hreq = [r \in Procs |-> IdleHandler]
    /\ MaintIdle

\* The steps of a running request, from after its call to its last statement
Run(r) ==
    \/ RM_Count(r)
    \/ RM_GetLocal(r)
    \/ RM_Remove(r)
    \/ RM_Probe(r)
    \/ RM_Buy(r)
    \/ RM_Add(r)
    \/ RP_Count(r)
    \/ RP_GetLocal(r)
    \/ RP_Remove(r)
    \/ RP_Probe(r)
    \/ RP_Buy(r)
    \/ RP_Add(r)

\* One request at a time, any operation on any package
Next ==
    \E r \in SeqProcs :
        \/ RM_Begin(r)
        \/ RP_Begin(r)
        \/ CK_Begin(r)
        \/ CK_Count(r)
        \/ CK_Probe(r)
        \/ CK_Stock(r)
        \/ Run(r)
        \/ Return(r)

Spec == Init /\ [][Next]_vars

\* The same, with requests for ids that are not packages: 0 and the first id
\* after monto_mapping
UnknownPackages == {0, MontoMappingMax + 1}

RM_BeginUnknown(r) ==
    \E m \in UnknownPackages, n \in 1..MaxCantidad, ext \in BOOLEAN :
        RM_Call(r, m, n, ext)

RP_BeginUnknown(r) == \E m \in UnknownPackages, ext \in BOOLEAN : RP_Call(r, m, ext)

NextAny ==
    \/ Next
    \/ \E r \in SeqProcs : RM_BeginUnknown(r) \/ RP_BeginUnknown(r)

SpecAny == Init /\ [][NextAny]_vars

\* Concurrent web requests for one package, one request per process: any
\* interleaving of their steps
ConcPackage == CHOOSE m \in Packages : \A x \in Packages : m <= x

InitConc ==
    /\ \E c \in [Packages -> 0..MaxStock] :
         /\ \A m \in Packages \ {ConcPackage} : c[m] = 0
         /\ pines = InitialRows(c)
    /\ next_id = MaxPackage * MaxStock + 1
    /\ minted = 0
    /\ req = [r \in Procs |-> IdleReq]
    /\ delivered = {}
    /\ nreq = 0
    /\ saldo = 0
    /\ session = [r \in Procs |-> [is_admin |-> FALSE, saldo |-> 0]]
    /\ precios = [m \in Packages |-> [precio |-> 1, activo |-> TRUE]]
    /\ transacciones = <<>>
    /\ hreq = [r \in Procs |-> IdleHandler]
    /\ MaintIdle

RM_BeginConc(r) ==
    \E n \in 1..MaxCantidad, ext \in BOOLEAN : RM_Call(r, ConcPackage, n, ext)

RP_BeginConc(r) == \E ext \in BOOLEAN : RP_Call(r, ConcPackage, ext)

NextConc ==
    \E r \in Procs :
        \/ RM_BeginConc(r)
        \/ RP_BeginConc(r)
        \/ Run(r)

SpecConc == InitConc /\ [][NextConc]_vars

\* Purchases through the web handler, one at a time
InitShop ==
    /\ \E c \in [Packages -> 0..MaxStock] : pines = InitialRows(c)
    /\ next_id = MaxPackage * MaxStock + 1
    /\ minted = 0
    /\ req = [r \in Procs |-> IdleReq]
    /\ delivered = {}
    /\ nreq = 0
    /\ saldo \in 0..MaxSaldo
    /\ \E adm \in BOOLEAN :
         session = [r \in Procs |-> [is_admin |-> adm,
                                     saldo |-> IF adm THEN 0 ELSE saldo]]
    /\ \E pr \in 1..MaxPrecio, act \in BOOLEAN :
         precios = [m \in Packages |-> [precio |-> pr, activo |-> act]]
    /\ transacciones = <<>>
    /\ hreq = [r \in Procs |-> IdleHandler]
    /\ MaintIdle

NextShop ==
    \E r \in SeqProcs :
        \/ H_Begin(r)
        \/ H_Persist(r)
        \/ H_End(r)
        \/ RM_Count(r)
        \/ RM_GetLocal(r)
        \/ RM_Remove(r)
        \/ RM_Probe(r)
        \/ RM_Buy(r)
        \/ RM_Add(r)

SpecShop == InitShop /\ [][NextShop]_vars

\* The vendor client called once on one response
InitVendor ==
    /\ pines = {}
    /\ next_id = 1
    /\ minted = 0
    /\ req = [r \in Procs |-> IdleReq]
    /\ delivered = {}
    /\ nreq = 0
    /\ saldo = 0
    /\ session = [r \in Procs |-> [is_admin |-> FALSE, saldo |-> 0]]
    /\ precios = [m \in Packages |-> [precio |-> 1, activo |-> TRUE]]
    /\ transacciones = <<>>
    /\ hreq = [r \in Procs |-> IdleHandler]
    /\ tx_id = 1
    /\ reloj = 0
    /\ admop = NoCall
    /\ OtrosIdle
    /\ \E op \in VendorOps, m \in VendorMontos, payload \in Payloads :
         vcall = [pc |-> "input", op |-> op, monto_id |-> m,
                  payload |-> payload, result |-> NoResult]

NextVendor == VendorApply

SpecVendor == InitVendor /\ [][NextVendor]_vars

\* The purchase records of two users: every site that records a purchase
\* (the purchase handlers and the Blood Striker approval) inserts one row and
\* trims the user's rows in the same commit
NoInventory ==
    /\ pines = {}
    /\ next_id = 1
    /\ minted = 0
    /\ req = [r \in Procs |-> IdleReq]
    /\ delivered = {}
    /\ nreq = 0

NoPurchase ==
    /\ saldo = 0
    /\ session = [r \in Procs |-> [is_admin |-> FALSE, saldo |-> 0]]
    /\ hreq = [r \in Procs |-> IdleHandler]

Users == {AdminId, Customer}

\* CURRENT_TIMESTAMP moves to the next second
Tick ==
    /\ reloj < MaxReloj
    /\ reloj' = reloj + 1
    /\ UNCHANGED <<pines, next_id, minted, req, delivered, nreq, shop,
                   tx_id, vcall, admop, otros>>

\* INSERT INTO transacciones, DELETE ... NOT IN (... LIMIT 20), commit
RecordTx(u) ==
    /\ tx_id <= MaxTx
    /\ u = AdminId => Cardinality(UserRows(transacciones, AdminId)) < MaxOtherTx
    /\ transacciones' \in
           TrimChoices(Append(transacciones, NewTx(u, <<>>, u = AdminId, 0)), u)
    /\ tx_id' = tx_id + 1
    /\ UNCHANGED <<pines, next_id, minted, req, delivered, nreq, saldo,
                   session, precios, hreq, reloj, vcall, admop, otros>>

InitTx ==
    /\ NoInventory
    /\ NoPurchase
    /\ precios = [m \in Packages |-> [precio |-> 1, activo |-> TRUE]]
    /\ transacciones = <<>>
    /\ MaintIdle

NextTx ==
    \/ Tick
    \/ \E u \in Users : RecordTx(u)

SpecTx == InitTx /\ [][NextTx]_vars

\* ------------------------------------------------- inventory maintenance
\* entries of a batch as the caller passes them: " ", " A", "A", "B "
BatchEntries == {<<" ">>, <<" ", "A">>, <<"A">>, <<"B", " ">>}
PinsLists == UNION {[1..n -> BatchEntries] : n \in 0..MaxBatchLen}
BatchMontos == 1..MaxBatchMonto

\* the rows the loop of add_pins_batch has inserted after its first k entries
RECURSIVE InsertedBy(_, _, _)
InsertedBy(monto_id, pins_list, k) ==
    IF k = 0 THEN {}
    ELSE LET done == InsertedBy(monto_id, pins_list, k - 1)
             pin_codigo == Strip(pins_list[k])
         IN IF pin_codigo # <<>>
            THEN done \cup {Row(next_id + Cardinality(done), monto_id, pin_codigo)}
            ELSE done

\* Mutant: the rows inserted before the failure are committed
TableAfterBatchNoRollback(monto_id, pins_list, fail_at) ==
    IF fail_at = 0
    THEN pines \cup InsertedBy(monto_id, pins_list, Len(pins_list))
    ELSE pines \cup InsertedBy(monto_id, pins_list, fail_at - 1)

\* the table after add_pins_batch: fail_at = 0 when no statement raises,
\* else the entry at which an exception is raised (Len + 1: at the commit);
\* the except clause rolls the transaction back
TableAfterBatch(monto_id, pins_list, fail_at) ==
    IF fail_at = 0
    THEN pines \cup InsertedBy(monto_id, pins_list, Len(pins_list))
    ELSE pines

\* len([p for p in pins_list if p.strip()])
BatchCount(pins_list) ==
    Cardinality({k \in 1..Len(pins_list) : Strip(pins_list[k]) # <<>>})

add_pins_batch(monto_id, pins_list, fail_at) ==
    /\ next_id + Len(pins_list) <= MaxRowId + 1
    /\ pines' = TableAfterBatch(monto_id, pins_list, fail_at)
    /\ next_id' = next_id + Cardinality(pines' \ pines)
    /\ admop' = [pc |-> "add_pins_batch", monto_id |-> monto_id,
                 pins_list |-> pins_list, raised |-> fail_at # 0,
                 result |-> IF fail_at = 0 THEN BatchCount(pins_list) ELSE 0,
                 before |-> pines]
    /\ UNCHANGED <<minted, req, delivered, nreq, shop, tx_id, reloj, vcall,
                   otros>>

AddPinsBatch ==
    \E monto_id \in BatchMontos, pins_list \in PinsLists :
        \E fail_at \in 0..(Len(pins_list) + 1) :
            add_pins_batch(monto_id, pins_list, fail_at)

SamePair(a, b) == a.pin_codigo = b.pin_codigo /\ a.monto_id = b.monto_id

\* Mutant: MAX(id) instead of MIN(id)
KeptByDedupeNewest(ps) ==
    {row \in ps : \A other \in ps : SamePair(row, other) => row.id >= other.id}

\* SELECT MIN(id) FROM pines_freefire GROUP BY pin_codigo, monto_id
KeptByDedupe(ps) ==
    {row \in ps : \A other \in ps : SamePair(row, other) => row.id <= other.id}

\* DELETE ... WHERE id NOT IN (...), .rowcount, commit
remove_duplicate_pins ==
    /\ pines' = KeptByDedupe(pines)
    /\ admop' = [pc |-> "remove_duplicate_pins",
                 result |-> Cardinality(pines \ pines'), before |-> pines]
    /\ UNCHANGED <<next_id, minted, req, delivered, nreq, shop, tx_id, reloj,
                   vcall, otros>>

InitAdmin ==
    /\ NoInventory
    /\ NoPurchase
    /\ precios = [m \in Packages |-> [precio |-> 1, activo |-> TRUE]]
    /\ transacciones = <<>>
    /\ MaintIdle

NextAdmin ==
    \/ AddPinsBatch
    \/ remove_duplicate_pins

SpecAdmin == InitAdmin /\ [][NextAdmin]_vars

\* ------------------------------------------------ duplicate maintenance
\* what the form of /admin/add_pin can carry: any text int() accepts as
\* monto_id, and the code as typed (it is not stripped)
FormMontos == {0 - 1, 1}
FormPins == {<<"A">>, <<"A", "-">>, <<"B">>}

\* add_pin_freefire: INSERT INTO pines_freefire (monto_id, pin_codigo), commit
add_pin_freefire(monto_id, pin_codigo) ==
    /\ next_id <= MaxRowId
    /\ pines' = pines \cup {Row(next_id, monto_id, pin_codigo)}
    /\ next_id' = next_id + 1
    /\ admop' = [pc |-> "add_pin_freefire", result |-> 0, before |-> pines]
    /\ UNCHANGED <<minted, req, delivered, nreq, shop, tx_id, reloj, vcall,
                   otros>>

\* POST /admin/add_pin with game_type freefire_latam
admin_add_pin ==
    \E monto_id \in FormMontos, pin_codigo \in FormPins :
        add_pin_freefire(monto_id, pin_codigo)

\* an integer as SQLite turns it into text for the || operator
DecimalDigits == <<"0", "1", "2", "3", "4", "5", "6", "7", "8", "9">>
RECURSIVE NatText(_)
NatText(n) ==
    IF n < 10 THEN <<DecimalDigits[n + 1]>>
    ELSE NatText(n \div 10) \o <<DecimalDigits[(n % 10) + 1]>>
IntText(n) == IF n < 0 THEN <<"-">> \o NatText(0 - n) ELSE NatText(n)

\* pin_codigo || '-' || monto_id
DupKey(row) == row.pin_codigo \o <<"-">> \o IntText(row.monto_id)

\* SELECT COUNT(*) - COUNT(DISTINCT pin_codigo || '-' || monto_id)
\* FROM pines_freefire WHERE usado = FALSE
DuplicatePinsCount(ps) ==
    LET unused == {row \in ps : ~row.usado}
    IN Cardinality(unused) - Cardinality({DupKey(row) : row \in unused})

get_duplicate_pins_count ==
    /\ admop' = [pc |-> "get_duplicate_pins_count",
                 result |-> DuplicatePinsCount(pines), before |-> pines]
    /\ UNCHANGED <<pines, next_id, minted, req, delivered, nreq, shop, tx_id,
                   reloj, vcall, otros>>

InitDup == InitAdmin

NextDup ==
    \/ admin_add_pin
    \/ get_duplicate_pins_count
    \/ remove_duplicate_pins

SpecDup == InitDup /\ [][NextDup]_vars

\* ------------------------------------------------- price administration
PriceIds == 1..MaxPriceId

\* Mutant: the UPDATE has lost its WHERE clause
UpdateEveryPrice(package_id, new_price) ==
    [m \in DOMAIN precios |-> [precios[m] EXCEPT !.precio = new_price]]

\* UPDATE precios_paquetes SET precio = ? WHERE id = ?
update_package_price(package_id, new_price) ==
    [m \in DOMAIN precios |->
        IF m = package_id THEN [precios[m] EXCEPT !.precio = new_price]
        ELSE precios[m]]

PriceCall(package_id, new_price, flash) ==
    [pc |-> "update_price", package_id |-> package_id,
     new_price |-> new_price, flash |-> flash, before |-> precios]

\* POST /admin/update_price of an administrator
admin_update_price ==
    \E package_id \in 0..(MaxPriceId + 1), new_price \in (0 - 1)..MaxPrecio :
        /\ IF new_price < 0 \/ package_id \notin DOMAIN precios
           THEN /\ precios' = precios
                /\ admop' = PriceCall(package_id, new_price, "error")
           ELSE /\ precios' = update_package_price(package_id, new_price)
                /\ admop' = PriceCall(package_id, new_price, "success")
        /\ UNCHANGED <<pines, next_id, minted, req, delivered, nreq, saldo,
                       session, transacciones, hreq, tx_id, reloj, vcall,
                       otros>>

\* init_db seeds every package with a price and activo = TRUE
InitPrecios ==
    /\ NoInventory
    /\ NoPurchase
    /\ precios = [m \in PriceIds |-> [precio |-> 1, activo |-> TRUE]]
    /\ transacciones = <<>>
    /\ MaintIdle

NextPrecios == admin_update_price

SpecPrecios == InitPrecios /\ [][NextPrecios]_vars

\* ---------------------------------------------- Blood Striker and the wallet
\* a row of transacciones_bloodstriker as create_bloodstriker_transaction
\* inserts it; devuelto counts the times its amount was credited back
BsRow(id, precio) ==
    [id |-> id, usuario_id |-> Customer, monto |-> 0 - precio,
     estado |-> "pendiente", devuelto |-> 0]

Abs(x) == IF x < 0 THEN 0 - x ELSE x

WalletOp == nreq < MaxWalletOps /\ nreq' = nreq + 1

\* POST /validar/bloodstriker from the customer's session r: the balance of
\* the session cookie is checked, the stored balance is debited
validar_bloodstriker(r) ==
    /\ WalletOp
    /\ \E precio \in 1..MaxPrecio :
         LET saldo_actual == session[r].saldo
         IN /\ ~(~session[r].is_admin /\ saldo_actual < precio)
            /\ saldo' = saldo - precio
            /\ session' = [session EXCEPT ![r].saldo = saldo_actual - precio]
            /\ bstx' = Append(bstx, BsRow(Len(bstx) + 1, precio))
    /\ UNCHANGED <<pines, next_id, minted, req, delivered, precios,
                   transacciones, hreq, tx_id, reloj, vcall, admop,
                   pines_global, greq>>

\* GET of a page that refreshes session['saldo'] from usuarios
ReloadSaldo(r) ==
    /\ WalletOp
    /\ session[r].saldo # saldo
    /\ session' = [session EXCEPT ![r].saldo = saldo]
    /\ UNCHANGED <<pines, next_id, minted, req, delivered, saldo, precios,
                   transacciones, hreq, maint>>

\* POST /admin/update_balance: update_user_balance(user_id, new_balance)
admin_update_balance ==
    /\ WalletOp
    /\ \E new_balance \in 0..MaxSaldo :
         /\ new_balance # saldo
         /\ saldo' = new_balance
    /\ UNCHANGED <<pines, next_id, minted, req, delivered, session, precios,
                   transacciones, hreq, maint>>

SetEstado(k, estado, refund) ==
    [bstx EXCEPT ![k].estado = estado, ![k].devuelto = @ + refund]

\* POST /admin/approve_bloodstriker/<id>: the purchase record is written and
\* trimmed, then the state is set, whatever the state was
approve_bloodstriker_transaction ==
    /\ WalletOp
    /\ \E k \in 1..Len(bstx) :
         /\ transacciones' \in
                TrimChoices(Append(transacciones,
                                   NewTx(bstx[k].usuario_id, <<>>, FALSE,
                                         bstx[k].monto)),
                            bstx[k].usuario_id)
         /\ tx_id' = tx_id + 1
         /\ bstx' = SetEstado(k, "aprobado", 0)
    /\ UNCHANGED <<pines, next_id, minted, req, delivered, saldo, session,
                   precios, hreq, reloj, vcall, admop, pines_global, greq>>

\* POST /admin/reject_bloodstriker/<id> (and /admin/bloodstriker_reject): the
\* amount is credited to the user, then the state is set, whatever the state was
reject_bloodstriker_transaction ==
    /\ WalletOp
    /\ \E k \in 1..Len(bstx) :
         /\ saldo' = saldo + Abs(bstx[k].monto)
         /\ bstx' = SetEstado(k, "rechazado", 1)
    /\ UNCHANGED <<pines, next_id, minted, req, delivered, session, precios,
                   transacciones, hreq, tx_id, reloj, vcall, admop,
                   pines_global, greq>>

\* the customer is logged in from two browsers: login copies usuarios.saldo
\* into each session
InitWallet ==
    /\ NoInventory
    /\ saldo \in 0..MaxSaldo
    /\ session = [r \in Procs |-> [is_admin |-> FALSE, saldo |-> saldo]]
    /\ hreq = [r \in Procs |-> IdleHandler]
    /\ precios = [m \in Packages |-> [precio |-> 1, activo |-> TRUE]]
    /\ transacciones = <<>>
    /\ MaintIdle

NextWallet ==
    \/ \E r \in Procs : validar_bloodstriker(r)
    \/ \E r \in Procs : ReloadSaldo(r)
    \/ admin_update_balance
    \/ approve_bloodstriker_transaction
    \/ reject_bloodstriker_transaction

SpecWallet == InitWallet /\ [][NextWallet]_vars

\* ------------------------------------------------------ validar_freefire
\* Quantities the Free Fire Global form accepts: 1..5
MaxCantidadGlobal == 5

GlobalCode(id) == <<"G", id>>
UnusedGlobal(m) == {row \in pines_global : row.monto_id = m /\ ~row.usado}
EndGlobal(g, outcome) == [g EXCEPT !.pc = "end", !.outcome = outcome]

\* POST /validar/freefire up to the count of the stock; the unit price is the
\* one precios_freefire_global holds for the package
G_Begin(r) ==
    /\ greq[r].pc = "idle"
    /\ \E n \in 0..MaxGlobalCantidad, precio_unitario \in 1..MaxPrecio :
         LET precio_total == PrecioTotal(precio_unitario, n)
             g == [IdleGlobal EXCEPT !.monto_id = ConcPackage, !.cantidad = n,
                                     !.precio_total = precio_total,
                                     !.saldo_actual = session[r].saldo]
         IN greq' = [greq EXCEPT ![r] =
                IF n < 1 \/ n > MaxCantidadGlobal
                THEN EndGlobal(g, "cantidad_invalida")
                ELSE IF ~session[r].is_admin /\ session[r].saldo < precio_total
                THEN EndGlobal(g, "saldo_insuficiente")
                ELSE [g EXCEPT !.pc = "count"]]
    /\ UNCHANGED <<pines, next_id, minted, req, delivered, nreq, shop,
                   tx_id, reloj, vcall, admop, bstx, pines_global>>

\* SELECT COUNT(*) FROM pines_freefire_global ... and the stock test
G_Count(r) ==
    /\ greq[r].pc = "count"
    /\ LET stock_disponible == Cardinality(UnusedGlobal(greq[r].monto_id))
           g == [greq[r] EXCEPT !.stock_disponible = stock_disponible]
       IN greq' = [greq EXCEPT ![r] =
              IF stock_disponible < g.cantidad
              THEN EndGlobal(g, "stock_insuficiente")
              ELSE [g EXCEPT !.pc = "select"]]
    /\ UNCHANGED <<pines, next_id, minted, req, delivered, nreq, shop,
                   tx_id, reloj, vcall, admop, bstx, pines_global>>

\* get_available_pin_freefire_global, the SELECT: any unused row, or none and
\* the purchase ends with the codes it has already removed
G_Select(r) ==
    /\ greq[r].pc = "select"
    /\ IF UnusedGlobal(greq[r].monto_id) = {}
       THEN greq' = [greq EXCEPT ![r] = EndGlobal(greq[r], "error_pines")]
       ELSE \E row \in UnusedGlobal(greq[r].monto_id) :
              greq' = [greq EXCEPT ![r] = [greq[r] EXCEPT !.pc = "delete",
                                                          !.pin = row]]
    /\ UNCHANGED <<pines, next_id, minted, req, delivered, nreq, shop,
                   tx_id, reloj, vcall, admop, bstx, pines_global>>

\* get_available_pin_freefire_global, the DELETE and commit; the row read is
\* returned whatever the DELETE found
G_Delete(r) ==
    /\ greq[r].pc = "delete"
    /\ pines_global' = {row \in pines_global : row.id # greq[r].pin.id}
    /\ LET g == [greq[r] EXCEPT !.pines_obtenidos = Append(@, greq[r].pin.pin_codigo),
                                !.i = @ + 1]
       IN greq' = [greq EXCEPT ![r] =
              IF g.i < g.cantidad THEN [g EXCEPT !.pc = "select"]
              ELSE [g EXCEPT !.pc = "persist"]]
    /\ UNCHANGED <<pines, next_id, minted, req, delivered, nreq, shop,
                   tx_id, reloj, vcall, admop, bstx>>

\* the database transaction of the purchase: debit, record, trim, commit
G_Persist(r) ==
    /\ greq[r].pc = "persist"
    /\ LET g == greq[r]
           tx == NewTx(UserId(r), g.pines_obtenidos, session[r].is_admin,
                       0 - g.precio_total)
       IN \E commit \in BOOLEAN :
            IF commit
            THEN /\ saldo' = IF session[r].is_admin THEN saldo
                             ELSE saldo - g.precio_total
                 /\ transacciones' \in
                        TrimChoices(Append(transacciones, tx), UserId(r))
                 /\ tx_id' = tx_id + 1
                 /\ session' = IF session[r].is_admin THEN session
                               ELSE [session EXCEPT ![r].saldo =
                                        g.saldo_actual - g.precio_total]
                 /\ greq' = [greq EXCEPT ![r] = EndGlobal(g, "compra_exitosa")]
            ELSE \* conn.rollback()
                 /\ greq' = [greq EXCEPT ![r] = EndGlobal(g, "error_transaccion")]
                 /\ UNCHANGED <<saldo, session, transacciones, tx_id>>
    /\ UNCHANGED <<pines, next_id, minted, req, delivered, nreq, precios, hreq,
                   reloj, vcall, admop, bstx, pines_global>>

\* Two concurrent purchases of one package, one per process
InitGlobal ==
    /\ NoInventory
    /\ saldo \in 0..MaxSaldo
    /\ session = [r \in Procs |-> [is_admin |-> FALSE, saldo |-> saldo]]
    /\ hreq = [r \in Procs |-> IdleHandler]
    /\ precios = [m \in Packages |-> [precio |-> 1, activo |-> TRUE]]
    /\ transacciones = <<>>
    /\ tx_id = 1
    /\ reloj = 0
    /\ vcall = NoCall
    /\ admop = NoCall
    /\ bstx = <<>>
    /\ \E c \in 0..MaxStock :
         pines_global = {Row(k, ConcPackage, GlobalCode(k)) : k \in 1..c}
    /\ greq = [r \in Procs |-> IdleGlobal]

NextGlobal ==
    \E r \in Procs :
        \/ G_Begin(r)
        \/ G_Count(r)
        \/ G_Select(r)
        \/ G_Delete(r)
        \/ G_Persist(r)

SpecGlobal == InitGlobal /\ [][NextGlobal]_vars

\* =================================================================== claims
\* Helpers of the claims: counts and codes of a snapshot of the table
StockIn(ps, m) == Cardinality({row \in ps : row.monto_id = m /\ ~row.usado})
CodesIn(ps, m) == {row.pin_codigo : row \in {x \in ps : x.monto_id = m /\ ~x.usado}}
Tagged(pins, src) == {k \in 1..Len(pins) : pins[k].source = src}
PinCodes(pins) == {pins[k].pin_code : k \in 1..Len(pins)}
MultipleDone(q) == q.op = "multiple" /\ q.pc = "done"

\* C1: with no concurrent request, request_multiple_pins(P, N) on a package
\* whose local count C >= N >= 1 returns success with exactly N codes, all
\* tagged local_stock and all taken from P's rows, and leaves get_local_stock(P) = C - N.
C1_LocalStockSuffices ==
    \A r \in Procs :
        LET q == req[r] IN
        (MultipleDone(q) /\ q.cantidad >= 1
            /\ StockIn(q.pines0, q.monto_id) >= q.cantidad)
        => /\ q.result.status = "success"
           /\ Len(q.result.pins) = q.cantidad
           /\ Tagged(q.result.pins, "local_stock") = 1..q.cantidad
           /\ PinCodes(q.result.pins) \subseteq CodesIn(q.pines0, q.monto_id)
           /\ get_local_stock(q.monto_id) = StockIn(q.pines0, q.monto_id) - q.cantidad

C1_Witness ==
    \E r \in Procs :
        /\ MultipleDone(req[r])
        /\ req[r].cantidad = 2
        /\ StockIn(req[r].pines0, req[r].monto_id) = 2
        /\ req[r].result.status = "success"
        /\ get_local_stock(req[r].monto_id) = 0

\* C2: across non-overlapping allocator requests, no code is delivered to
\* more than one request: a finished request returns no code that an earlier
\* request has returned.
C2_NoCodeDeliveredTwice ==
    \A r \in Procs :
        req[r].pc = "done" => ResultCodes(req[r]) \cap delivered = {}
\* The original statement of C2 fails: a vendor code is returned to the
\* caller and also inserted as an unused row (add_local_pin), so a later
\* request takes it from local stock and returns it again.

\* C3: two concurrent requests for one package can both read the same unused
\* row before either deletes it, and then both return its code: the step
\* after the DELETE hands out the row that was read whether or not the row
\* was still there (no lock, no version check, no look at the row count).
C3_ReadRowAlwaysHandedOut ==
    [][\A r \in Procs :
          (req[r].pc \in {"rm_remove", "rp_remove"} /\ req'[r] # req[r])
          => \/ /\ req[r].pc = "rm_remove"
                /\ req'[r].pines_obtenidos =
                       Append(req[r].pines_obtenidos,
                              [pin_code |-> req[r].local_pin.pin_codigo,
                               source |-> "local_stock"])
             \/ /\ req[r].pc = "rp_remove"
                /\ req'[r].result.status = "success"
                /\ req'[r].result.pin_code = req[r].local_pin.pin_codigo]_vars

\* Both requests have returned the code of the one row both had read.
C3_Witness ==
    \E r1 \in Procs, r2 \in Procs :
        /\ r1 # r2
        /\ req[r1].pc = "done" /\ req[r2].pc = "done"
        /\ req[r1].local_pin.id # 0
        /\ req[r1].local_pin = req[r2].local_pin
        /\ req[r1].local_pin.pin_codigo \in ResultCodes(req[r1])
        /\ req[r1].local_pin.pin_codigo \in ResultCodes(req[r2])
        /\ StockIn(req[r2].pines0, req[r2].monto_id) = 1

VendorAlwaysOk(q) == \A k \in 1..Len(q.calls) : q.calls[k].ok

\* C4: with no concurrent request, fallback enabled and every vendor call of
\* the request succeeding, request_multiple_pins(P, N) on a package with local
\* count C < N returns success with exactly N codes, exactly C of them tagged
\* local_stock and exactly N - C tagged inefable_api.
C4_ShortfallFilledByVendor ==
    \A r \in Procs :
        LET q == req[r]
            C == StockIn(q.pines0, q.monto_id)
        IN (MultipleDone(q) /\ q.cantidad >= 1 /\ C < q.cantidad
                /\ q.use_external_api /\ VendorAlwaysOk(q))
           => /\ q.result.status = "success"
              /\ Len(q.result.pins) = q.cantidad
              /\ Cardinality(Tagged(q.result.pins, "local_stock")) = C
              /\ Cardinality(Tagged(q.result.pins, "inefable_api")) = q.cantidad - C

C4_Witness ==
    \E r \in Procs :
        /\ MultipleDone(req[r])
        /\ req[r].cantidad = 3
        /\ StockIn(req[r].pines0, req[r].monto_id) = 1
        /\ req[r].use_external_api
        /\ VendorAlwaysOk(req[r])
        /\ Len(req[r].calls) = 3
        /\ req[r].result.status = "success"

\* The codes of the package's rows that the request removed
RemovedCodes(q) == CodesIn(q.pines0, q.monto_id) \ CodesIn(pines, q.monto_id)

\* C5 as stated: with local count C < N and fallback disabled the result is a
\* failure of kind no_stock / insufficient_stock, and no code is removed from
\* the inventory unless the result reports it. (The code's own names for an
\* exhausted stock, no_pins_available and no_local_stock, are accepted as
\* that kind here.)
C5_Original ==
    \A r \in Procs :
        LET q == req[r]
            C == StockIn(q.pines0, q.monto_id)
        IN (MultipleDone(q) /\ q.cantidad >= 1 /\ C < q.cantidad
                /\ ~q.use_external_api)
           => /\ q.result.status = "error"
              /\ q.result.error_type \in {"no_stock", "insufficient_stock",
                                         "no_pins_available", "no_local_stock"}
              /\ RemovedCodes(q) \subseteq ResultCodes(q)

\* C5 amended: with local count C < N and fallback disabled, the result is
\* partial_success carrying exactly the C local codes when C > 0, and an error
\* of kind no_pins_available when C = 0; no vendor call is made, and the codes
\* removed from the inventory are exactly the codes the result reports.
C5_ShortfallWithoutFallback ==
    \A r \in Procs :
        LET q == req[r]
            C == StockIn(q.pines0, q.monto_id)
        IN (MultipleDone(q) /\ q.cantidad >= 1 /\ C < q.cantidad
                /\ ~q.use_external_api)
           => /\ q.calls = <<>>
              /\ RemovedCodes(q) = ResultCodes(q)
              /\ C = 0 => /\ q.result.status = "error"
                          /\ q.result.error_type = "no_pins_available"
                          /\ pines = q.pines0
              /\ C > 0 => /\ q.result.status = "partial_success"
                          /\ Len(q.result.pins) = C
                          /\ Tagged(q.result.pins, "local_stock") = 1..C
                          /\ get_local_stock(q.monto_id) = 0

C5_Witness ==
    \E r \in Procs :
        /\ MultipleDone(req[r])
        /\ req[r].cantidad = 3
        /\ StockIn(req[r].pines0, req[r].monto_id) = 2
        /\ ~req[r].use_external_api
        /\ req[r].result.status = "partial_success"
        /\ get_local_stock(req[r].monto_id) = 0

\* C6: request_multiple_pins(P, N) with N <= 0 returns an error of kind
\* validation, makes no vendor call (no probe, no purchase) and leaves the
\* inventory as it was.
C6_NonPositiveQuantityRejected ==
    \A r \in Procs :
        LET q == req[r] IN
        (q.op = "multiple" /\ q.pc # "idle" /\ q.cantidad <= 0)
        => /\ q.pc = "done"
           /\ q.result.status = "error"
           /\ q.result.error_type = "validation"
           /\ q.calls = <<>>
           /\ pines = q.pines0

C6_Witness ==
    \E r \in Procs :
        /\ MultipleDone(req[r])
        /\ req[r].cantidad = 0
        /\ req[r].use_external_api
        /\ req[r].pines0 # {}
        /\ req[r].result.status = "error"

FailedPurchase(c) == c.kind = "purchase" /\ ~c.ok
Purchases(q) == {k \in 1..Len(q.calls) : q.calls[k].kind = "purchase"}

\* C7: in request_multiple_pins the first failed vendor purchase call is the
\* last vendor call of the request (no retry, no further call); if it is the
\* k-th purchase call, the request holds its local codes plus k - 1 vendor
\* codes, and the result is partial_success when that total is > 0.
C7_FirstVendorFailureEndsAcquisition ==
    \A r \in Procs :
        LET q == req[r]
            k == Cardinality(Purchases(q))
            total == Len(q.pines_obtenidos)
        IN (q.op = "multiple" /\ q.cantidad >= 1)
           => /\ \A j \in 1..Len(q.calls) :
                    FailedPurchase(q.calls[j])
                    => (j = Len(q.calls) /\ q.pc = "done")
              /\ (q.calls # <<>> /\ FailedPurchase(q.calls[Len(q.calls)]))
                 => /\ Cardinality(Tagged(q.pines_obtenidos, "inefable_api")) = k - 1
                    /\ Cardinality(Tagged(q.pines_obtenidos, "local_stock"))
                           = Min(q.cantidad, StockIn(q.pines0, q.monto_id))
                    /\ total < q.cantidad
                    /\ total > 0 => /\ q.result.status = "partial_success"
                                    /\ q.result.pins = q.pines_obtenidos
                                    /\ q.result.cantidad_obtenida = total
                    /\ total = 0 => q.result.status = "error"

\* local stock 1, request 3, the vendor succeeds once and then fails
C7_Witness ==
    \E r \in Procs :
        /\ MultipleDone(req[r])
        /\ req[r].cantidad = 3
        /\ StockIn(req[r].pines0, req[r].monto_id) = 1
        /\ Len(req[r].calls) = 3
        /\ req[r].calls[2].ok
        /\ FailedPurchase(req[r].calls[3])
        /\ req[r].result.status = "partial_success"
        /\ req[r].result.cantidad_obtenida = 2

\* C8: for request_multiple_pins(P, N) with N >= 1 the status follows from
\* the number of codes obtained: success iff obtained = N, partial_success iff
\* 0 < obtained < N, error iff obtained = 0; and the cantidad_obtenida that a
\* success or partial_success reports is the length of the returned list.
C8_StatusFollowsObtained ==
    \A r \in Procs :
        LET q == req[r]
            obtained == Len(q.pines_obtenidos)
        IN (MultipleDone(q) /\ q.cantidad >= 1)
           => /\ q.result.status \in {"success", "partial_success", "error"}
              /\ q.result.status = "success" <=> obtained = q.cantidad
              /\ q.result.status = "partial_success"
                     <=> (0 < obtained /\ obtained < q.cantidad)
              /\ q.result.status = "error" <=> obtained = 0
              /\ q.result.status # "error"
                     => /\ q.result.pins = q.pines_obtenidos
                        /\ q.result.cantidad_obtenida = Len(q.result.pins)
                        /\ q.result.cantidad_solicitada = q.cantidad

C8_Witness ==
    \E r \in Procs :
        /\ MultipleDone(req[r])
        /\ req[r].cantidad = 3
        /\ req[r].result.status = "partial_success"
        /\ req[r].result.cantidad_obtenida = 1
        /\ Tagged(req[r].result.pins, "inefable_api") = {1}
\* C9: when the allocator reports partial_success to validar_freefire_latam
\* in a customer's purchase, the amount recorded in the purchase record and
\* debited from the user's balance is the unit price times the number of
\* codes obtained.
C9_PartialChargedForObtained ==
    \A r \in Procs :
        LET h == hreq[r]
            obtained == Len(req[r].result.pins)
        IN (h.pc = "end" /\ h.outcome = "compra_exitosa"
                /\ ~session[r].is_admin
                /\ req[r].result.status = "partial_success")
           => /\ transacciones[Len(transacciones)].monto
                     = 0 - (h.precio_unitario * obtained)
              /\ h.saldo_antes - saldo = h.precio_unitario * obtained

\* C10: check_combined_stock, with the is_available and
\* check_stock_availability calls it makes, never changes the inventory: no
\* step of a check (whatever the vendor answers) adds, removes or changes a
\* row of pines_freefire, so get_local_stock is the same after any number of
\* checks as before the first.
C10_CheckLeavesInventory ==
    [][(\E r \in Procs : req[r].op = "check" \/ req'[r].op = "check")
       => /\ pines' = pines
          /\ next_id' = next_id
          /\ \A m \in Packages : StockIn(pines', m) = StockIn(pines, m)]_vars

\* A second check in a row has ended, the vendor having answered its stock
\* check with a code, over a stocked inventory.
C10_Witness ==
    \E r \in Procs :
        /\ req[r].op = "check" /\ req[r].pc = "done"
        /\ nreq = 2
        /\ minted = 4
        /\ Len(req[r].calls) = 2
        /\ req[r].result.external_available
        /\ req[r].pines0 # {}
        /\ pines = req[r].pines0

SingleDone(q) == q.op = "single" /\ q.pc = "done"
KnownPackage(q) == q.monto_id \in monto_mapping

\* C12 as stated: request_pin_with_fallback(P) on a package with local count
\* 0 fails with kind no_stock when fallback is not requested, no_stock_no_api
\* when the vendor is unreachable, and external_api_error when the vendor is
\* reachable but returns an error or an unparseable payload; the inventory is
\* unchanged in the three cases. (The code's name for the first kind,
\* no_local_stock, is accepted as no_stock here.)
C12_Original ==
    \A r \in Procs :
        LET q == req[r] IN
        (SingleDone(q) /\ KnownPackage(q) /\ StockIn(q.pines0, q.monto_id) = 0)
        => /\ ~q.use_external_api
                => /\ q.result.status = "error"
                   /\ q.result.error_type \in {"no_stock", "no_local_stock"}
                   /\ pines = q.pines0
           /\ (q.use_external_api /\ \A k \in 1..Len(q.calls) : ~q.calls[k].reached)
                => /\ q.result.status = "error"
                   /\ q.result.error_type = "no_stock_no_api"
                   /\ pines = q.pines0
           /\ (q.use_external_api /\ q.calls # <<>>
                   /\ (\A k \in 1..Len(q.calls) : q.calls[k].reached)
                   /\ ~q.calls[Len(q.calls)].ok)
                => /\ q.result.status = "error"
                   /\ q.result.error_type = "external_api_error"
                   /\ pines = q.pines0

\* C12 amended: with no concurrent request, request_pin_with_fallback(P) on a
\* package with local count 0 fails with kind no_local_stock when fallback is
\* not requested (no vendor call), no_stock_no_api when the availability probe
\* fails (vendor unreachable, or reachable and answering the probe with an
\* error), and external_api_error when the probe succeeds and the purchase
\* request fails; the inventory is unchanged in the three cases.
C12_FailureKindsOfSingle ==
    \A r \in Procs :
        LET q == req[r] IN
        (SingleDone(q) /\ KnownPackage(q) /\ StockIn(q.pines0, q.monto_id) = 0)
        => /\ ~q.use_external_api
                => /\ q.result.status = "error"
                   /\ q.result.error_type = "no_local_stock"
                   /\ q.calls = <<>>
                   /\ pines = q.pines0
           /\ (q.use_external_api /\ ~q.calls[1].ok)
                => /\ q.calls[1].kind = "probe"
                   /\ Len(q.calls) = 1
                   /\ q.result.status = "error"
                   /\ q.result.error_type = "no_stock_no_api"
                   /\ pines = q.pines0
           /\ (q.use_external_api /\ q.calls[1].ok /\ ~q.calls[Len(q.calls)].ok)
                => /\ Len(q.calls) = 2
                   /\ q.calls[2].kind = "purchase"
                   /\ q.result.status = "error"
                   /\ q.result.error_type = "external_api_error"
                   /\ pines = q.pines0

\* The probe was answered, the purchase request timed out
C12_Witness ==
    \E r \in Procs :
        /\ SingleDone(req[r]) /\ KnownPackage(req[r])
        /\ StockIn(req[r].pines0, req[r].monto_id) = 0
        /\ req[r].use_external_api
        /\ Len(req[r].calls) = 2
        /\ req[r].calls[1].ok
        /\ ~req[r].calls[2].reached
        /\ req[r].result.status = "error"
        /\ req[r].result.error_type = "external_api_error"

\* C13: an allocator request (request_multiple_pins with N >= 1, or
\* request_pin_with_fallback) for an id that is not a known package (outside
\* 1..9) returns a failure whose error kind is validation.
C13_UnknownPackageIsValidation ==
    \A r \in Procs :
        LET q == req[r] IN
        (q.pc = "done" /\ q.op \in {"multiple", "single"}
            /\ q.cantidad >= 1 /\ ~KnownPackage(q))
        => /\ q.result.status = "error"
           /\ q.result.error_type = "validation"

\* C14: every successful acquisition of a code by the allocator, from local
\* stock or from the vendor, removes exactly one row from the inventory: with
\* no concurrent request, the package's row count after a request is its
\* count before minus the number of codes the request obtained.
C14_EachAcquisitionRemovesOneRow ==
    \A r \in Procs :
        LET q == req[r] IN
        (q.pc = "done" /\ q.op \in {"multiple", "single"} /\ KnownPackage(q))
        => get_local_stock(q.monto_id)
               = StockIn(q.pines0, q.monto_id) - Cardinality(ResultCodes(q))

\* ---- claims about the vendor client on one response
ClientReturned(op) ==
    /\ vcall.pc = "output"
    /\ vcall.op = op
    /\ vcall.monto_id \in monto_mapping

\* the vendor outcomes that are failures: timeout, connection failure,
\* non-2xx response, unparseable payload (not a JSON object, or a text with no
\* code in it)
FailedOutcome(payload) ==
    ResponseOf(payload) \in
        {"timeout", "connection", "http_error", "json_nondict", "text_nopin"}

HasKind(result) ==
    "error_type" \in DOMAIN result \/ "message" \in DOMAIN result

\* C11: for every vendor outcome that is a failure (network timeout,
\* connection failure, non-2xx response, unparseable payload) the vendor
\* client's request_pin and check_stock_availability return a result with
\* status error and an error kind. (The results of check_stock_availability
\* carry no error_type; the message that names the failure is accepted as
\* their kind. The other half of the claim, that neither the client nor the
\* allocator raises, is how the operations are modelled: a raise inside
\* them ends in their except clause.)
C11_VendorFailuresAreTypedErrors ==
    ((ClientReturned("request_pin") \/ ClientReturned("check_stock_availability"))
        /\ FailedOutcome(vcall.payload))
    => /\ vcall.result.status = "error"
       /\ HasKind(vcall.result)

SinStockDisponible == <<"S", "i", "n", " ", "s", "t", "o", "c", "k", " ", "d", "i", "s", "p", "o", "n", "i", "b", "l", "e">>

\* C18: check_stock_availability(P) reports available = true if and only if
\* the response text contains none of the stock-absence keywords and a code
\* pattern is found in it; in particular the text "Sin stock disponible"
\* yields available = false.
C18_AvailableIffNoKeywordAndCode ==
    (ClientReturned("check_stock_availability") /\ vcall.payload.kind = "text")
    => LET response_text == LowerText(vcall.payload.text)
       IN /\ vcall.result.available
                <=> (~HasKeyword(response_text) /\ PatternFound(response_text))
          /\ vcall.payload.text = SinStockDisponible => ~vcall.result.available

PrefixWords == <<<<"P", "I", "N">>, <<"C", "O", "D", "I", "G", "O">>, <<"C", "O", "D", "E">>>>
AccentedWord == <<"C", "ó", "d", "i", "g", "o">>

IsCodeText(c) == \A k \in 1..Len(c) : IsAlnum(c[k])

\* at position i the word stands, followed (after any ":" and white space) by
\* at least 10 code characters
PrefixedCodeAt(t, i, w) ==
    WordAt(t, i, w) /\ AlnumRun(t, SkipSeps(t, i + Len(w))) >= 10

HasPrefixed(t, w) == \E i \in 1..Len(t) : PrefixedCodeAt(t, i, w)
HasBare(t) == \E i \in 1..Len(t) : AlnumRun(t, i) >= 12

\* c is what stands right after an occurrence of the prefix w in t
FollowsPrefix(t, w, c) ==
    \E i \in 1..Len(t) :
        /\ PrefixedCodeAt(t, i, w)
        /\ LET from == SkipSeps(t, i + Len(w))
           IN /\ from + Len(c) - 1 <= Len(t)
              /\ c = SubSeq(t, from, from + Len(c) - 1)

PinScenario == <<"P", "i", "n", ":", " ", "A", "B", "1", "2", "C", "D", "3", "4", "E", "F", "5", "6">>
PinOfScenario == <<"A", "B", "1", "2", "C", "D", "3", "4", "E", "F", "5", "6">>

RowsOf(txs, uid) == {txs[i] : i \in UserRows(txs, uid)}

\* C15: after every purchase or approval each user has at most 20 records in
\* transacciones; the records kept are that user's most recent (no dropped
\* record is more recent than a kept one) and the record just inserted is
\* among them; the records of other users are not deleted by the trim.
C15_TrimKeepsMostRecent ==
    [][tx_id' = tx_id + 1
       => /\ \A u \in Users :
                Cardinality(UserRows(transacciones', u)) <= RetentionLimit
          /\ \E i \in 1..Len(transacciones') : transacciones'[i].id = tx_id
          /\ \A u \in Users :
                LET kept == RowsOf(transacciones', u)
                    dropped == RowsOf(transacciones, u) \ kept
                    inserted == \E k \in kept : k.id = tx_id
                IN /\ \A d \in dropped, k \in kept : d.fecha <= k.fecha
                   /\ ~inserted => dropped = {}]_vars

\* ---- claims about inventory maintenance
BatchReturned == admop.pc = "add_pins_batch"
DedupeReturned == admop.pc = "remove_duplicate_pins"

\* entries of the batch that read as the code c once trimmed
EntriesFor(pins_list, c) == {k \in 1..Len(pins_list) : Strip(pins_list[k]) = c}
TrimmedCodes(pins_list) == {Strip(pins_list[k]) : k \in 1..Len(pins_list)} \ {<<>>}

\* C16: add_pins_batch(P, codes) inserts one row of package P for every entry
\* of codes that is non-empty after trimming, with the trimmed code, and no
\* row for an empty entry; it returns the number of rows it inserted; the
\* rows already in the inventory stay, also those with an equal code; and
\* when it fails part-way the inventory is as before the call.
C16_BatchInsertsTrimmedCodes ==
    BatchReturned
    => LET new == pines \ admop.before
       IN IF admop.raised THEN pines = admop.before
          ELSE /\ admop.before \subseteq pines
               /\ admop.result = Cardinality(new)
               /\ \A row \in new :
                     /\ row.monto_id = admop.monto_id
                     /\ row.pin_codigo \in TrimmedCodes(admop.pins_list)
                     /\ ~row.usado
                     /\ \A old \in admop.before : old.id < row.id
               /\ \A c \in TrimmedCodes(admop.pins_list) :
                     Cardinality({row \in new : row.pin_codigo = c})
                         = Cardinality(EntriesFor(admop.pins_list, c))

\* a batch with a blank entry and a code the package already has: the blank
\* entry adds no row and the two rows of the code coexist
C16_Witness ==
    /\ BatchReturned
    /\ ~admop.raised
    /\ EntriesFor(admop.pins_list, <<>>) # {}
    /\ \E row \in pines \ admop.before, old \in admop.before :
           SamePair(row, old)

PriceUpdated == admop.pc = "update_price" /\ admop.flash = "success"

LocalTaken(q) ==
    Cardinality({k \in 1..Len(q.pines_obtenidos) :
                    q.pines_obtenidos[k].source = "local_stock"})
PurchaseCalls(q) ==
    Cardinality({k \in 1..Len(q.calls) : q.calls[k].kind = "purchase"})

\* C21: request_multiple_pins contacts the vendor (probe or purchase) only
\* with fallback enabled, only when the local count read was below N and fewer
\* than N codes were taken locally, and only after its local takes: once it
\* has made a vendor request it reads and takes no further local row; it
\* makes at most N - (codes taken locally) purchase calls.
C21_LocalFirstThenVendor ==
    [][\A r \in Procs :
         req'[r].op = "multiple"
         => /\ req'[r].calls # <<>>
                 => /\ req'[r].use_external_api
                    /\ req'[r].local_stock < req'[r].cantidad
                    /\ LocalTaken(req'[r]) < req'[r].cantidad
                    /\ PurchaseCalls(req'[r])
                           <= req'[r].cantidad - LocalTaken(req'[r])
                    /\ req'[r].pc \notin {"rm_count", "rm_get", "rm_remove"}
            /\ (req[r].op = "multiple" /\ req[r].calls # <<>>)
                 => LocalTaken(req'[r]) = LocalTaken(req[r])]_vars

\* a request that took a local code and then bought one from the vendor
C21_Witness ==
    \E r \in Procs :
        /\ req[r].op = "multiple"
        /\ req[r].pc = "done"
        /\ LocalTaken(req[r]) >= 1
        /\ PurchaseCalls(req[r]) >= 1
        /\ req[r].result.status = "success"

\* ---- claims about the purchase handler validar_freefire_latam
PersistFailed(r) ==
    /\ hreq[r].pc = "alloc"
    /\ hreq'[r].pc = "end"
    /\ hreq'[r].outcome = "error_transaccion"

\* C22: when persisting the purchase record fails after the allocator has
\* handed codes to validar_freefire_latam, the rollback leaves the user's
\* balance and the table transacciones as they were, and the codes handed over
\* are gone: none of them is a row of the inventory and none is delivered to
\* a purchase.
C22_FailedPersistLosesCodes ==
    [][\A r \in Procs :
         PersistFailed(r)
         => /\ saldo' = saldo
            /\ transacciones' = transacciones
            /\ ResultCodes(req[r]) # {}
            /\ ResultCodes(req[r]) \cap {row.pin_codigo : row \in pines'} = {}
            /\ ResultCodes(req[r]) \cap delivered' = {}]_vars

\* C23: a purchase through validar_freefire_latam takes its codes from local
\* stock only: whatever the quantity and the inventory, no step of the
\* purchase is a request to the vendor.
C23_HandlerNeverCallsVendor ==
    \A r \in Procs : hreq[r].pc # "idle" => req[r].calls = <<>>

\* the purchase passed the handler's checks of quantity, package and balance
ChecksPassed(h) ==
    h.outcome \notin {"cantidad_invalida", "paquete_inactivo", "saldo_insuficiente"}

\* C24: a purchase of one unit through validar_freefire_latam, by a user whose
\* balance covers it, of an active package with at least one local code,
\* delivers exactly one code, removes it from the inventory, debits the unit
\* price and records one purchase record.
C24_SingleUnitPurchase ==
    \A r \in Procs :
        LET h == hreq[r]
            codes == ResultCodes(req[r])
            stock_before == StockIn(pines, h.monto_id) + Cardinality(codes)
        IN (h.pc = "end" /\ h.cantidad_pedida = 1 /\ ChecksPassed(h)
                /\ stock_before >= 1)
           => /\ h.outcome = "compra_exitosa"
              /\ Cardinality(codes) = 1
              /\ codes \cap CodesIn(pines, h.monto_id) = {}
              /\ transacciones # <<>>
              /\ transacciones[Len(transacciones)].id = tx_id - 1
              /\ Len(transacciones[Len(transacciones)].pin) = 1
              /\ ~session[r].is_admin => h.saldo_antes - saldo = h.precio_unitario

\* ---- claims about the wallet
\* C25: the stored balance of a customer never becomes negative through
\* purchases: whatever the sessions the purchases come from and whatever the
\* admin does to the balance in between, a step that debits the balance
\* finds at least the amount it debits.
C25_BalanceNeverNegative ==
    [][saldo' < saldo => saldo' >= 0]_vars

\* C29: a Blood Striker transaction changes state only from pendiente to
\* aprobado or from pendiente to rechazado, and its amount is credited back
\* at most once, on the change from pendiente to rechazado only.
C29_BloodStrikerStates ==
    [][\A k \in 1..Len(bstx) :
         /\ bstx'[k].estado # bstx[k].estado
              => /\ bstx[k].estado = "pendiente"
                 /\ bstx'[k].estado \in {"aprobado", "rechazado"}
         /\ bstx'[k].devuelto <= 1
         /\ bstx'[k].devuelto > bstx[k].devuelto
              => /\ bstx[k].estado = "pendiente"
                 /\ bstx'[k].estado = "rechazado"]_vars

\* ---- claims about validar_freefire
CodesOfRecord(tx) == {tx.pin[k] : k \in 1..Len(tx.pin)}

\* C26: a Free Fire Global purchase whose database transaction is not aborted
\* is all-or-nothing under any interleaving with other purchases of the
\* package: either it removed exactly cantidad codes, delivered them in one
\* purchase record and was charged the unit price times cantidad, or it
\* removed no code and was charged nothing; and no code is in two purchase
\* records.
C26_GlobalPurchaseAllOrNothing ==
    /\ \A r \in Procs :
          LET g == greq[r]
          IN (g.pc = "end" /\ g.outcome # "error_transaccion")
             => IF g.outcome = "compra_exitosa"
                THEN /\ Len(g.pines_obtenidos) = g.cantidad
                     /\ \E k \in 1..Len(transacciones) :
                           /\ transacciones[k].pin = g.pines_obtenidos
                           /\ transacciones[k].monto = 0 - g.precio_total
                ELSE g.pines_obtenidos = <<>>
    /\ \A j, k \in 1..Len(transacciones) :
          j # k => CodesOfRecord(transacciones[j])
                       \cap CodesOfRecord(transacciones[k]) = {}

\* ---- claims about requests that run at the same time
\* C27: with fallback enabled and a vendor that is available and always
\* succeeds, request_multiple_pins(P, N) returns success with N codes also
\* when another request removes local codes of P between this request's
\* count and its takes: the vendor calls make up any shortfall of the takes.
C27_ShortfallMadeUpByVendor ==
    \A r \in Procs :
        (MultipleDone(req[r]) /\ req[r].use_external_api
            /\ req[r].cantidad >= 1 /\ VendorAlwaysOk(req[r]))
        => /\ req[r].result.status = "success"
           /\ Len(req[r].result.pins) = req[r].cantidad
\* The codes the vendor has minted so far
MintedCodes == {VendorCode(k) : k \in 1..minted}

\* C28: an availability probe (is_available / test_connection and
\* check_stock_availability) is never a request that the vendor can serve as a
\* purchase: with a vendor that mints one code per purchase request, every
\* code minted during an allocator request is returned in that request's
\* result. (Stated for the first request of a run, so that every code minted
\* so far was minted during it.)
C28_ProbeNeverServedAsPurchase ==
    \A r \in Procs :
        (nreq = 1 /\ req[r].pc = "done" /\ req[r].op \in {"multiple", "single"})
        => MintedCodes \subseteq ResultCodes(req[r])

\* C30: duplicate maintenance is consistent and idempotent: on an inventory
\* whose rows are all unused, remove_duplicate_pins() deletes exactly
\* get_duplicate_pins_count() rows (the count read immediately before),
\* afterwards get_duplicate_pins_count() is 0, and a second
\* remove_duplicate_pins() deletes nothing and returns 0.
C30_DedupeMatchesCount ==
    (admop.pc = "remove_duplicate_pins" /\ \A row \in admop.before : ~row.usado)
    => /\ admop.result = DuplicatePinsCount(admop.before)
       /\ DuplicatePinsCount(pines) = 0
       /\ Cardinality(pines \ KeptByDedupe(pines)) = 0

====
